---- MODULE Spec2Model ----
(***************************************************************************)
(* Scene layers (ensogl display/scene/layer.rs): layers, the groups they   *)
(* are children of, depth-order dependency graphs, dirty flags and the     *)
(* per-frame update that re-sorts the symbols of a layer; the per-layer     *)
(* shape system registry; and the suggestion database of the IDE model     *)
(* (ide/src/model/suggestion_database.rs).                                 *)
(***************************************************************************)
EXTENDS Integers, Sequences, FiniteSets, TLC

\* ------------------------------------------------------------- bounds
NumLayers == 3
NumSymbols == 3
NumShapeSystems == 3
MaxOps == 5
MaxLayerOps == 8
MaxShapeOps == 4
MaxEditOps == 4
MaxRegistryOps == 4
MaxGroupOps == 5
MaxHandles == 2
MaxHandleOps == 3
NumSuggestions == 2
MaxVersion == 2
MaxDatabaseOps == 1

\* The smallest address the allocator hands out for a layer's `mem_mark`;
\* `LayerModel::id` is that address, not a slot index.
HeapBase == 4096

Layers == 1 .. NumLayers
SymbolIds == 1 .. NumSymbols
ShapeSystemIds == 1 .. NumShapeSystems

\* ----------------------------------------------------------- LayerItem
\* enum LayerItem { Symbol(SymbolId), ShapeSystem(ShapeSystemId) }, with the
\* derived Ord: variant tag first, then the wrapped id.
Symbol(id) == <<0, id>>

ShapeSystem(id) == <<1, id>>

LayerItems ==
    {Symbol(s) : s \in SymbolIds} \cup {ShapeSystem(i) : i \in ShapeSystemIds}

IsShapeSystem(item) == item[1] = 1

ItemLess(a, b) == a[1] < b[1] \/ (a[1] = b[1] /\ a[2] < b[2])

MinItem(S) == CHOOSE x \in S : \A y \in S : x = y \/ ItemLess(x, y)

\* The value of `*id` for layer l: Rc::as_ptr(&self.mem_mark) as usize.
LayerAddr(l) == HeapBase + l

\* Compile-time ordering of a shape system type (DynShapeSystemOf::<T>::above()
\* and below()): shape system 1 is declared above shape system 2 and below
\* shape system 3.
StaticAbove(ss) == IF ss = 1 THEN {2} \cap ShapeSystemIds ELSE {}

StaticBelow(ss) == IF ss = 1 THEN {3} \cap ShapeSystemIds ELSE {}

\* The dependency edges the callers of the model pass to the ordering API.
DepEdges ==
    { <<Symbol(3), Symbol(1)>>, <<Symbol(1), Symbol(2)>>,
      <<ShapeSystem(2), Symbol(1)>> }

\* ------------------------------------------------------------ HashMap
MapRemove(m, k) == [x \in DOMAIN m \ {k} |-> m[x]]

MapInsert(m, k, v) == [x \in DOMAIN m \cup {k} |-> IF x = k THEN v ELSE m[x]]

\* Vec::remove_item: removes the first occurrence only.
RECURSIVE remove_item(_, _)
remove_item(vec, x) ==
    IF vec = <<>> THEN <<>>
    ELSE IF Head(vec) = x THEN Tail(vec)
    ELSE <<Head(vec)>> \o remove_item(Tail(vec), x)

SeqToSet(s) == {s[i] : i \in DOMAIN s}

\* ------------------------------------------------------ DependencyGraph
\* A graph is its set of (below, above) edges.
insert_dependency(graph, below, above) == graph \cup {<<below, above>>}

remove_dependency(graph, below, above) == graph \ {<<below, above>>}

\* The sort loop: take the smallest orphan (a key with no pending incoming
\* edge); when none is left, the smallest remaining key is made an orphan,
\* which breaks the cycle it is part of.
RECURSIVE TopoLoop(_, _, _, _)
TopoLoop(sorted, orphans, non_orphans, edges) ==
    IF orphans = {}
    THEN IF non_orphans = {}
         THEN sorted
         ELSE LET ix == MinItem(non_orphans)
              IN  TopoLoop(sorted, {ix}, non_orphans \ {ix}, edges)
    ELSE LET ix == MinItem(orphans)
             rest == {e \in edges : e[1] # ix}
             freed == {n \in non_orphans : \A e \in rest : e[2] # n}
         IN  TopoLoop(Append(sorted, ix), (orphans \ {ix}) \cup freed,
                      non_orphans \ freed, rest)

into_unchecked_topo_sort(graph, keys) ==
    LET edges == {e \in graph : e[1] \in keys /\ e[2] \in keys}
        non_orphans == {k \in keys : \E e \in edges : e[2] = k}
    IN  TopoLoop(<<>>, keys \ non_orphans, non_orphans, edges)

\* Paths of a graph, for the statements about cycles.
Endpoints(E) == {e[1] : e \in E} \cup {e[2] : e \in E}

RECURSIVE ReachFrom(_, _, _)
ReachFrom(E, S, n) ==
    IF n = 0 THEN S
    ELSE ReachFrom(E, S \cup {e[2] : e \in {x \in E : x[1] \in S}}, n - 1)

\* The items a path of E leads to from a.
Successors(E, a) ==
    ReachFrom(E, {e[2] : e \in {x \in E : x[1] = a}}, Cardinality(Endpoints(E)))

Acyclic(E) == \A a \in Endpoints(E) : a \notin Successors(E, a)

\* The edges of E with both endpoints in K.
Within(E, K) == {e \in E : e[1] \in K /\ e[2] \in K}

\* ---------------------------------------------------------------- state
VARIABLES
    alive,                           \* the layers whose LayerModel is not dropped
    elements,                        \* LayerModel.elements
    shape_system_to_symbol_info_map, \* ShapeSystemId -> SymbolId of the info
    symbol_to_shape_system_map,      \* SymbolId -> ShapeSystemId
    symbols_ordered,                 \* LayerModel.symbols_ordered
    depth_order,                     \* the layer's local graph
    depth_order_dirty,               \* the layer's dirty flag
    parents,                         \* Vec<Children>: the groups, by owner
    global_element_depth_order,      \* the graph a layer gives its children
    layers,                          \* ChildrenModel.layers (OptVec items)
    free_ixs,                        \* the OptVec's free indexes
    layer_placement,                 \* ChildrenModel.layer_placement
    symbols_placement,               \* ChildrenModel.symbols_placement
    element_depth_order_dirty,       \* Children.element_depth_order_dirty
    fatal,                           \* a panic has unwound out of an operation
    sort_log,                        \* history: layers depth_sort ran on, last step
    unresolved,                      \* history: changed since last depth_sort
    global_edited,                   \* history: global graph changed, not yet updated
    shape_system_map,                \* ShapeSystemRegistryData, by layer
    scene_symbols,                   \* number of symbols the scene has created
    constructed,                     \* history: shape systems built, by layer and type
    instantiated,                    \* history: what the instantiate calls returned
    entries,                         \* SuggestionDatabase.entries (DataStore.storage)
    version,                         \* SuggestionDatabase.version
    notifications,                   \* what the notifications publisher has sent
    errors,                          \* history: updates of the last event that failed
    absent_named,                    \* history: the last event held a Remove or Modify of an id not in the store
    handles,                         \* the Rc<Entry> values lookup returned, still held by the callers
    ls_response,                     \* history: Some(response) the database was built from, until an event
    events,                          \* history: number of update events applied
    ops,                             \* number of operations performed
    limit                            \* number of operations the run performs

vars ==
    << alive, elements, shape_system_to_symbol_info_map,
       symbol_to_shape_system_map, symbols_ordered, depth_order,
       depth_order_dirty, parents, global_element_depth_order, layers,
       free_ixs, layer_placement, symbols_placement,
       element_depth_order_dirty, fatal, sort_log, unresolved, global_edited,
       shape_system_map, scene_symbols, constructed, instantiated,
       entries, version, notifications, errors, events, handles,
       absent_named, ls_response, ops, limit >>

\* The shape system registries and the part of the scene they call out to.
registry_vars == << shape_system_map, scene_symbols, constructed, instantiated >>

\* The suggestion database.
database_vars ==
    << entries, version, notifications, errors, events, handles,
       absent_named, ls_response >>

\* The heap as one value, so that an operation can be composed of the calls
\* it makes. The history of the previous step's sorts is dropped on entry.
Heap ==
    [ alive |-> alive, elements |-> elements,
      shape_system_to_symbol_info_map |-> shape_system_to_symbol_info_map,
      symbol_to_shape_system_map |-> symbol_to_shape_system_map,
      symbols_ordered |-> symbols_ordered, depth_order |-> depth_order,
      depth_order_dirty |-> depth_order_dirty, parents |-> parents,
      global_element_depth_order |-> global_element_depth_order,
      layers |-> layers, free_ixs |-> free_ixs,
      layer_placement |-> layer_placement,
      symbols_placement |-> symbols_placement,
      element_depth_order_dirty |-> element_depth_order_dirty,
      fatal |-> fatal, sort_log |-> <<>> ]

Commit(h) ==
    /\ alive' = h.alive
    /\ elements' = h.elements
    /\ shape_system_to_symbol_info_map' = h.shape_system_to_symbol_info_map
    /\ symbol_to_shape_system_map' = h.symbol_to_shape_system_map
    /\ symbols_ordered' = h.symbols_ordered
    /\ depth_order' = h.depth_order
    /\ depth_order_dirty' = h.depth_order_dirty
    /\ parents' = h.parents
    /\ global_element_depth_order' = h.global_element_depth_order
    /\ layers' = h.layers
    /\ free_ixs' = h.free_ixs
    /\ layer_placement' = h.layer_placement
    /\ symbols_placement' = h.symbols_placement
    /\ element_depth_order_dirty' = h.element_depth_order_dirty
    /\ fatal' = h.fatal
    /\ sort_log' = h.sort_log
    /\ unresolved' =
           [l \in Layers |->
               IF l \in SeqToSet(h.sort_log) THEN FALSE
               ELSE \/ unresolved[l]
                    \/ h.elements[l] # elements[l]
                    \/ h.depth_order[l] # depth_order[l]
                    \/ h.shape_system_to_symbol_info_map[l]
                           # shape_system_to_symbol_info_map[l]]
    /\ global_edited' =
           [g \in Layers |->
               /\ h.element_depth_order_dirty[g]
               /\ \/ global_edited[g]
                  \/ h.global_element_depth_order[g]
                         # global_element_depth_order[g]]
    /\ UNCHANGED registry_vars
    /\ UNCHANGED database_vars
    /\ ops' = ops + 1
    /\ limit' = limit

\* LayerModel::new for every layer: nothing registered, every flag clear.
LayersConstructed ==
    /\ alive = [l \in Layers |-> TRUE]
    /\ elements = [l \in Layers |-> {}]
    /\ shape_system_to_symbol_info_map = [l \in Layers |-> <<>>]
    /\ symbol_to_shape_system_map = [l \in Layers |-> <<>>]
    /\ symbols_ordered = [l \in Layers |-> <<>>]
    /\ depth_order = [l \in Layers |-> {}]
    /\ depth_order_dirty = [l \in Layers |-> FALSE]
    /\ parents = [l \in Layers |-> <<>>]
    /\ global_element_depth_order = [l \in Layers |-> {}]
    /\ layers = [l \in Layers |-> <<>>]
    /\ free_ixs = [l \in Layers |-> <<>>]
    /\ layer_placement = [l \in Layers |-> <<>>]
    /\ symbols_placement = [l \in Layers |-> [s \in SymbolIds |-> <<>>]]
    /\ element_depth_order_dirty = [l \in Layers |-> FALSE]
    /\ fatal = FALSE
    /\ sort_log = <<>>
    /\ unresolved = [l \in Layers |-> FALSE]
    /\ global_edited = [l \in Layers |-> FALSE]

\* The registry LayerModel::new gives every layer, by default(): no shape
\* system; the scene has created no symbol for one.
RegistriesConstructed ==
    /\ shape_system_map = [l \in Layers |-> <<>>]
    /\ scene_symbols = 0
    /\ constructed = [l \in Layers |-> [T \in ShapeSystemIds |-> 0]]
    /\ instantiated = {}

\* SuggestionDatabase::new_empty: no entry, the default version, nothing
\* published.
new_empty ==
    /\ entries = <<>>
    /\ version = 0
    /\ notifications = <<>>
    /\ errors = 0
    /\ events = 0
    /\ handles = <<>>
    /\ absent_named = FALSE
    /\ ls_response = <<>>

Constructed ==
    LayersConstructed /\ RegistriesConstructed /\ new_empty /\ ops = 0

Init == Constructed /\ limit = MaxOps

\* ------------------------------------------------------------ dirty flags
\* The on_mut callback LayerModel::new gives depth_order_dirty: it sets the
\* element_depth_order_dirty flag of every parent.
on_mut(h, l) ==
    [h EXCEPT !.element_depth_order_dirty =
        [g \in Layers |-> @[g] \/ g \in SeqToSet(h.parents[l])]]

\* dirty::SharedBool::set on depth_order_dirty: the flag is set and the
\* callback runs when the flag goes from clear to set.
depth_order_dirty_set(h, l) ==
    IF h.depth_order_dirty[l]
    THEN h
    ELSE on_mut([h EXCEPT !.depth_order_dirty[l] = TRUE], l)

\* ----------------------------------------------------------------- OptVec
\* An index-stable vector: `items` of slots, 0-based, a slot being <<>>
\* (vacant) or <<l>> (a WeakLayer of l), and the `free_ixs` to reuse.
safe_index(vec, ix) ==
    IF ix >= 0 /\ ix < Len(vec) THEN vec[ix + 1] ELSE <<>>

\* OptVec::insert: a free index is reused, else the item is pushed.
OptVecInsert(items, free, item) ==
    IF free = <<>>
    THEN [items |-> Append(items, <<item>>), free_ixs |-> free,
          ix |-> Len(items)]
    ELSE LET ix == free[Len(free)]
         IN  [items |-> [items EXCEPT ![ix + 1] = <<item>>],
              free_ixs |-> SubSeq(free, 1, Len(free) - 1), ix |-> ix]

\* OptVec::remove: `self.items[index].take()`, an index out of bounds
\* panics; the index of an occupied slot becomes free.
OptVecRemove(items, free, index) ==
    IF index >= Len(items)
    THEN [items |-> items, free_ixs |-> free, panic |-> TRUE]
    ELSE [items |-> [items EXCEPT ![index + 1] = <<>>],
          free_ixs |-> IF items[index + 1] # <<>> THEN Append(free, index)
                       ELSE free,
          panic |-> FALSE]

\* WeakLayer::upgrade of an Option<WeakLayer>.
upgrade(h, slot) == IF slot # <<>> /\ h.alive[slot[1]] THEN slot ELSE <<>>

\* ChildrenModel::layer_ix
layer_ix(h, g, layer_id) ==
    IF layer_id \in DOMAIN h.layer_placement[g]
    THEN <<h.layer_placement[g][layer_id]>>
    ELSE <<>>

\* ChildrenModel::get: Option<Layer> as <<>> or <<l>>.
get(h, g, layer_id) ==
    LET ix == layer_ix(h, g, layer_id)
    IN  IF ix = <<>> THEN <<>> ELSE upgrade(h, safe_index(h.layers[g], ix[1]))

\* ChildrenModel::all
RECURSIVE all_of(_, _)
all_of(h, vec) ==
    IF vec = <<>> THEN <<>>
    ELSE upgrade(h, Head(vec)) \o all_of(h, Tail(vec))

children(h, g) == all_of(h, h.layers[g])

\* -------------------------------------------------------------- LayerModel
\* LayerModel::symbol_id_of_element: Option<SymbolId> as <<>> or <<id>>.
symbol_id_of_element(h, l, element) ==
    IF ~IsShapeSystem(element) THEN <<element[2]>>
    ELSE IF element[2] \in DOMAIN h.shape_system_to_symbol_info_map[l]
    THEN <<h.shape_system_to_symbol_info_map[l][element[2]]>>
    ELSE <<>>

Count(vec, x) == Cardinality({i \in DOMAIN vec : vec[i] = x})

Repeat(x, n) == [i \in 1 .. n |-> x]

RECURSIVE remove_items(_, _, _)
remove_items(vec, x, n) ==
    IF n = 0 THEN vec ELSE remove_items(remove_item(vec, x), x, n - 1)

\* LayerModel::add_element; shape_system_info is <<>> (None) or <<id>>, the
\* id of a ShapeSystemInfo whose ordering is the static one of its type.
add_element(h, l, symbol_id, shape_system_info) ==
    LET h1 == depth_order_dirty_set(h, l)
        h2 == IF shape_system_info = <<>>
              THEN [h1 EXCEPT !.elements[l] = @ \cup {Symbol(symbol_id)}]
              ELSE LET id == shape_system_info[1]
                   IN  [h1 EXCEPT
                           !.shape_system_to_symbol_info_map[l] =
                               MapInsert(@, id, symbol_id),
                           !.symbol_to_shape_system_map[l] =
                               MapInsert(@, symbol_id, id),
                           !.elements[l] = @ \cup {ShapeSystem(id)}]
    IN  [h2 EXCEPT !.symbols_placement =
            [g \in Layers |->
                [@[g] EXCEPT ![symbol_id] =
                    @ \o Repeat(l, Count(h2.parents[l], g))]]]

\* LayerModel::remove_symbol
remove_symbol(h, l, symbol_id) ==
    LET h1 == depth_order_dirty_set(h, l)
        h2 == [h1 EXCEPT !.elements[l] = @ \ {Symbol(symbol_id)}]
        h3 == IF symbol_id \in DOMAIN h2.symbol_to_shape_system_map[l]
              THEN LET shape_system_id ==
                           h2.symbol_to_shape_system_map[l][symbol_id]
                   IN  [h2 EXCEPT
                           !.symbol_to_shape_system_map[l] =
                               MapRemove(@, symbol_id),
                           !.shape_system_to_symbol_info_map[l] =
                               MapRemove(@, shape_system_id),
                           !.elements[l] = @ \ {ShapeSystem(shape_system_id)}]
              ELSE h2
    IN  [h3 EXCEPT !.symbols_placement =
            [g \in Layers |->
                [@[g] EXCEPT ![symbol_id] =
                    remove_items(@, l, Count(h3.parents[l], g))]]]

\* The inner loop of remove_symbol_from_all_layers over a cloned placement.
RECURSIVE remove_from_placed(_, _, _, _)
remove_from_placed(h, parent, placement, symbol_id) ==
    IF placement = <<>> THEN h
    ELSE LET opt_layer == get(h, parent, Head(placement))
             h1 == IF opt_layer # <<>>
                   THEN remove_symbol(h, opt_layer[1], symbol_id)
                   ELSE h
         IN  remove_from_placed(h1, parent, Tail(placement), symbol_id)

\* LayerModel::remove_symbol_from_all_layers, over the rest of self.parents.
RECURSIVE remove_symbol_from_all_layers(_, _, _)
remove_symbol_from_all_layers(h, rest, symbol_id) ==
    IF rest = <<>> THEN h
    ELSE LET parent == Head(rest)
             placement == h.symbols_placement[parent][symbol_id]
         IN  remove_symbol_from_all_layers(
                 remove_from_placed(h, parent, placement, symbol_id),
                 Tail(rest), symbol_id)

\* LayerModel::add_element_exclusive
add_element_exclusive(h, l, symbol_id, shape_system_info) ==
    add_element(remove_symbol_from_all_layers(h, h.parents[l], symbol_id),
                l, symbol_id, shape_system_info)

\* combined_depth_order_graph where the local graph overrides the global
\* one: a global edge at an item the local graph mentions is lost.
combined_depth_order_graph_local_overrides(h, l, global) ==
    {e \in global : /\ e[1] \notin Endpoints(h.depth_order[l])
                    /\ e[2] \notin Endpoints(h.depth_order[l])}
    \cup h.depth_order[l] \cup
    UNION { {<<element, ShapeSystem(id2)>> : id2 \in StaticBelow(element[2])}
            \cup {<<ShapeSystem(id2), element>> : id2 \in StaticAbove(element[2])}
          : element \in
              {e \in h.elements[l] :
                  /\ IsShapeSystem(e)
                  /\ e[2] \in DOMAIN h.shape_system_to_symbol_info_map[l]} }

\* combined_depth_order_graph without the `extend` of the local graph.
combined_depth_order_graph_without_local(h, l, global) ==
    global \cup
    UNION { {<<element, ShapeSystem(id2)>> : id2 \in StaticBelow(element[2])}
            \cup {<<ShapeSystem(id2), element>> : id2 \in StaticAbove(element[2])}
          : element \in
              {e \in h.elements[l] :
                  /\ IsShapeSystem(e)
                  /\ e[2] \in DOMAIN h.shape_system_to_symbol_info_map[l]} }

\* LayerModel::combined_depth_order_graph
combined_depth_order_graph(h, l, global) ==
    global \cup h.depth_order[l] \cup
    UNION { {<<element, ShapeSystem(id2)>> : id2 \in StaticBelow(element[2])}
            \cup {<<ShapeSystem(id2), element>> : id2 \in StaticAbove(element[2])}
          : element \in
              {e \in h.elements[l] :
                  /\ IsShapeSystem(e)
                  /\ e[2] \in DOMAIN h.shape_system_to_symbol_info_map[l]} }

\* The filter_map of depth_sort keeping the bare symbols only.
RECURSIVE sorted_symbols_without_shapes(_, _, _)
sorted_symbols_without_shapes(h, l, sorted_elements) ==
    IF sorted_elements = <<>> THEN <<>>
    ELSE (IF IsShapeSystem(Head(sorted_elements)) THEN <<>>
          ELSE <<Head(sorted_elements)[2]>>)
         \o sorted_symbols_without_shapes(h, l, Tail(sorted_elements))

\* The filter_map of depth_sort collecting the symbols back to front.
RECURSIVE sorted_symbols_reversed(_, _, _)
sorted_symbols_reversed(h, l, sorted_elements) ==
    IF sorted_elements = <<>> THEN <<>>
    ELSE sorted_symbols_reversed(h, l, Tail(sorted_elements))
         \o symbol_id_of_element(h, l, Head(sorted_elements))

\* The filter_map of depth_sort: the symbol of each sorted element.
RECURSIVE sorted_symbols(_, _, _)
sorted_symbols(h, l, sorted_elements) ==
    IF sorted_elements = <<>> THEN <<>>
    ELSE symbol_id_of_element(h, l, Head(sorted_elements))
         \o sorted_symbols(h, l, Tail(sorted_elements))

\* depth_sort sorting every item of the combined graph, not only the
\* elements of the layer.
resolved_over_graph_items(h, l, global) ==
    sorted_symbols(h, l,
        into_unchecked_topo_sort(
            combined_depth_order_graph(h, l, global),
            h.elements[l] \cup Endpoints(combined_depth_order_graph(h, l, global))))

\* What depth_sort stores in symbols_ordered.
resolved(h, l, global) ==
    sorted_symbols(h, l,
        into_unchecked_topo_sort(combined_depth_order_graph(h, l, global),
                                 h.elements[l]))

\* depth_sort giving up, symbols_ordered untouched, when the edges between
\* the layer's elements form a cycle.
depth_sort_aborting_on_cycle(h, l, global) ==
    IF Acyclic(Within(combined_depth_order_graph(h, l, global), h.elements[l]))
    THEN [h EXCEPT !.symbols_ordered[l] = resolved(h, l, global),
                   !.sort_log = Append(@, l)]
    ELSE [h EXCEPT !.sort_log = Append(@, l)]

\* LayerModel::depth_sort
depth_sort(h, l, global) ==
    [h EXCEPT !.symbols_ordered[l] = resolved(h, l, global),
              !.sort_log = Append(@, l)]

RECURSIVE update_internal(_, _, _)
RECURSIVE update_children(_, _, _)

\* update_internal that checks depth_order_dirty without unsetting it.
update_internal_keeping_dirty(h, l, global) ==
    LET h1 == IF h.depth_order_dirty[l] /\ global # <<>>
              THEN depth_sort(h, l, global[1])
              ELSE h
    IN  IF h1.element_depth_order_dirty[l]
        THEN update_children(
                 [h1 EXCEPT !.element_depth_order_dirty[l] = FALSE],
                 l, children(h1, l))
        ELSE h1

\* update_internal that checks the children's flag without unsetting it.
update_internal_keeping_children_flag(h, l, global) ==
    LET h1 == IF h.depth_order_dirty[l]
              THEN LET hu == [h EXCEPT !.depth_order_dirty[l] = FALSE]
                   IN  IF global # <<>> THEN depth_sort(hu, l, global[1]) ELSE hu
              ELSE h
    IN  IF h1.element_depth_order_dirty[l]
        THEN update_children(h1, l, children(h1, l))
        ELSE h1

\* LayerModel::update_internal; global is <<>> (None) or <<graph>>.
update_internal(h, l, global) ==
    LET h1 == IF h.depth_order_dirty[l]
              THEN LET hu == [h EXCEPT !.depth_order_dirty[l] = FALSE]
                   IN  IF global # <<>> THEN depth_sort(hu, l, global[1]) ELSE hu
              ELSE h
    IN  IF h1.element_depth_order_dirty[l]
        THEN update_children(
                 [h1 EXCEPT !.element_depth_order_dirty[l] = FALSE],
                 l, children(h1, l))
        ELSE h1

\* The loop of update_internal over the vector children() returned.
update_children(h, l, kids) ==
    IF kids = <<>> THEN h
    ELSE update_children(
             update_internal(h, Head(kids), <<h.global_element_depth_order[l]>>),
             l, Tail(kids))

\* LayerModel::update
update(h, l) == update_internal(h, l, <<>>)

\* ------------------------------------------------------ grouping utilities
\* LayerModel::get_child
get_child(h, g, layer_id) == get(h, g, layer_id)

\* LayerModel::add_child
add_child(h, g, layer) ==
    LET ins == OptVecInsert(h.layers[g], h.free_ixs[g], layer)
        h1 == [h EXCEPT !.layers[g] = ins.items, !.free_ixs[g] = ins.free_ixs]
        h2 == [h1 EXCEPT !.layer_placement[g] = MapInsert(@, layer, ins.ix)]
    IN  [h2 EXCEPT !.parents[layer] = Append(@, g)]

\* LayerModel::remove_all_children: the body is a TODO.
remove_all_children(h, g) == h

RECURSIVE add_children(_, _, _)
add_children(h, g, ls) ==
    IF ls = <<>> THEN h
    ELSE add_children(add_child(h, g, Head(ls)), g, Tail(ls))

\* LayerModel::set_children
set_children(h, g, ls) == add_children(remove_all_children(h, g), g, ls)

\* add_elements_order_dependency setting the dirty flag on every call.
add_elements_order_dependency_always_dirty(h, l, below, above) ==
    depth_order_dirty_set(
        [h EXCEPT !.depth_order[l] = insert_dependency(@, below, above)], l)

\* LayerModel::add_elements_order_dependency
add_elements_order_dependency(h, l, below, above) ==
    IF <<below, above>> \notin h.depth_order[l]
    THEN depth_order_dirty_set(
             [h EXCEPT !.depth_order[l] = insert_dependency(@, below, above)], l)
    ELSE h

\* LayerModel::remove_elements_order_dependency
remove_elements_order_dependency(h, l, below, above) ==
    IF <<below, above>> \in h.depth_order[l]
    THEN depth_order_dirty_set(
             [h EXCEPT !.depth_order[l] = remove_dependency(@, below, above)], l)
    ELSE h

\* add_global_elements_order_dependency setting the group flag on every call.
add_global_elements_order_dependency_always_dirty(h, g, below, above) ==
    [h EXCEPT !.global_element_depth_order[g] =
                  insert_dependency(@, below, above),
              !.element_depth_order_dirty[g] = TRUE]

\* LayerModel::add_global_elements_order_dependency
add_global_elements_order_dependency(h, g, below, above) ==
    IF <<below, above>> \notin h.global_element_depth_order[g]
    THEN [h EXCEPT !.global_element_depth_order[g] =
                       insert_dependency(@, below, above),
                   !.element_depth_order_dirty[g] = TRUE]
    ELSE h

\* LayerModel::remove_global_elements_order_dependency
remove_global_elements_order_dependency(h, g, below, above) ==
    IF <<below, above>> \in h.global_element_depth_order[g]
    THEN [h EXCEPT !.global_element_depth_order[g] =
                       remove_dependency(@, below, above),
                   !.element_depth_order_dirty[g] = TRUE]
    ELSE h

\* ------------------------------------------------------------------- Drop
\* The number of elements of l drawn under symbol s.
ElementsOfSymbol(h, l, s) ==
    Cardinality({e \in h.elements[l] : symbol_id_of_element(h, l, e) = <<s>>})

\* impl Drop for LayerModel, over the rest of self.parents. The items are
\* indexed with `*id`, the layer's address; a panic of OptVec::remove
\* unwinds out of drop and leaves the rest of the loop undone.
RECURSIVE drop_from_parents(_, _, _)
drop_from_parents(h, l, rest) ==
    IF rest = <<>> THEN h
    ELSE LET parent == Head(rest)
             rem == OptVecRemove(h.layers[parent], h.free_ixs[parent],
                                 LayerAddr(l))
         IN  IF rem.panic
             THEN [h EXCEPT !.fatal = TRUE]
             ELSE LET h1 == [h EXCEPT !.layers[parent] = rem.items,
                                      !.free_ixs[parent] = rem.free_ixs]
                      h2 == [h1 EXCEPT !.symbols_placement[parent] =
                                [s \in SymbolIds |->
                                    remove_items(@[s], l,
                                                 ElementsOfSymbol(h1, l, s))]]
                  IN  drop_from_parents(h2, l, Tail(rest))

\* The last Layer handle of l is released.
drop(h, l) ==
    [drop_from_parents(h, l, h.parents[l]) EXCEPT !.alive[l] = FALSE]

\* ---------------------------------------------------------------- actions
\* An operation is called on a live layer by external code, while no panic
\* has ended the program.
CanCall(l) == ~fatal /\ ops < limit /\ alive[l]

\* The scene of Spec: layer 1 is the root group, the others hold the
\* elements; layer 2 is also the group of the layers after it.
Root == CHOOSE l \in Layers : \A m \in Layers : l <= m

Leaves == Layers \ {Root}

SceneSymbols == SymbolIds \ {NumSymbols}

SceneShapes == {<<1, 2>>}

SceneEdges == {<<ShapeSystem(1), Symbol(1)>>, <<Symbol(2), Symbol(1)>>}

Groups == {Root, 2}

\* The calls of set_children: <<group, layers>>.
ChildChoices ==
    { <<Root, <<2>>>>, <<Root, <<2, 3>>>>, <<2, <<3>>>> }

AddSymbol(l, s) == CanCall(l) /\ Commit(add_element(Heap, l, s, <<>>))

AddSymbolExclusive(l, s) ==
    CanCall(l) /\ Commit(add_element_exclusive(Heap, l, s, <<>>))

AddShape(l, id, s) == CanCall(l) /\ Commit(add_element(Heap, l, s, <<id>>))

AddShapeExclusive(l, id, s) ==
    CanCall(l) /\ Commit(add_element_exclusive(Heap, l, s, <<id>>))

RemoveSymbol(l, s) == CanCall(l) /\ Commit(remove_symbol(Heap, l, s))

AddElementsOrderDependency(l, e) ==
    CanCall(l) /\ Commit(add_elements_order_dependency(Heap, l, e[1], e[2]))

RemoveElementsOrderDependency(l, e) ==
    CanCall(l) /\ Commit(remove_elements_order_dependency(Heap, l, e[1], e[2]))

AddGlobalElementsOrderDependency(g, e) ==
    CanCall(g) /\ Commit(add_global_elements_order_dependency(Heap, g, e[1], e[2]))

RemoveGlobalElementsOrderDependency(g, e) ==
    CanCall(g)
    /\ Commit(remove_global_elements_order_dependency(Heap, g, e[1], e[2]))

SetChildren(g, ls) ==
    /\ CanCall(g)
    /\ \A i \in DOMAIN ls : alive[ls[i]]
    /\ Commit(set_children(Heap, g, ls))

Update(l) == CanCall(l) /\ Commit(update(Heap, l))

Drop(l) == CanCall(l) /\ Commit(drop(Heap, l))

Next ==
    \/ \E l \in Leaves, s \in SceneSymbols : AddSymbol(l, s)
    \/ \E l \in Leaves, s \in SceneSymbols : AddSymbolExclusive(l, s)
    \/ \E l \in Leaves, p \in SceneShapes : AddShape(l, p[1], p[2])
    \/ \E l \in Leaves, p \in SceneShapes : AddShapeExclusive(l, p[1], p[2])
    \/ \E l \in Leaves, s \in SceneSymbols : RemoveSymbol(l, s)
    \/ \E l \in Leaves, e \in SceneEdges : AddElementsOrderDependency(l, e)
    \/ \E l \in Leaves, e \in SceneEdges : RemoveElementsOrderDependency(l, e)
    \/ \E g \in Groups, e \in SceneEdges : AddGlobalElementsOrderDependency(g, e)
    \/ \E g \in Groups, e \in SceneEdges :
          RemoveGlobalElementsOrderDependency(g, e)
    \/ \E c \in ChildChoices : SetChildren(c[1], c[2])
    \/ \E l \in Layers : Update(l)
    \/ \E l \in Layers : Drop(l)

Spec == Init /\ [][Next]_vars

\* One standalone layer and the local ordering API, as in the end-to-end
\* scenario of the layer's symbols ordering.
InitLayer == Constructed /\ limit = MaxLayerOps

NextLayer ==
    \/ \E s \in SymbolIds : AddSymbol(Root, s)
    \/ \E s \in SymbolIds : RemoveSymbol(Root, s)
    \/ \E e \in DepEdges : AddElementsOrderDependency(Root, e)
    \/ \E e \in DepEdges : RemoveElementsOrderDependency(Root, e)
    \/ Update(Root)

SpecLayer == InitLayer /\ [][NextLayer]_vars

\* Two layers of one group and the shapes placed on them. add_shape takes the
\* shape system id and the symbol id from its caller: <<id, symbol>>.
ShapePool == {<<1, 1>>, <<1, 2>>, <<2, 1>>}

InitShapes == Constructed /\ limit = MaxShapeOps

NextShapes ==
    \/ SetChildren(Root, <<2, 3>>)
    \/ \E l \in Leaves, p \in ShapePool : AddShape(l, p[1], p[2])
    \/ \E l \in Leaves, p \in ShapePool : AddShapeExclusive(l, p[1], p[2])
    \/ \E l \in Leaves, s \in SceneSymbols : AddSymbol(l, s)
    \/ \E l \in Leaves, s \in SceneSymbols : RemoveSymbol(l, s)
    \/ Update(Root)

SpecShapes == InitShapes /\ [][NextShapes]_vars

\* The sort of one layer of a group. The scene is drawn at the start: the
\* layer is registered in the group, then given symbols, shapes and local
\* edges, and the group is given global edges, by the calls of the API.
Leaf == CHOOSE l \in Leaves : \A m \in Leaves : l <= m

\* The shapes of the sorted layer: <<shape system id, its symbol>>.
SortShapes == {<<1, 2>>, <<2, 3>>, <<3, 1>>}

GlobalEdges ==
    { <<Symbol(2), Symbol(3)>>, <<Symbol(2), Symbol(1)>>,
      <<ShapeSystem(3), ShapeSystem(2)>> }

\* LayerModel::new for every layer, as a value.
NewHeap ==
    [ alive |-> [l \in Layers |-> TRUE],
      elements |-> [l \in Layers |-> {}],
      shape_system_to_symbol_info_map |-> [l \in Layers |-> <<>>],
      symbol_to_shape_system_map |-> [l \in Layers |-> <<>>],
      symbols_ordered |-> [l \in Layers |-> <<>>],
      depth_order |-> [l \in Layers |-> {}],
      depth_order_dirty |-> [l \in Layers |-> FALSE],
      parents |-> [l \in Layers |-> <<>>],
      global_element_depth_order |-> [l \in Layers |-> {}],
      layers |-> [l \in Layers |-> <<>>],
      free_ixs |-> [l \in Layers |-> <<>>],
      layer_placement |-> [l \in Layers |-> <<>>],
      symbols_placement |-> [l \in Layers |-> [s \in SymbolIds |-> <<>>]],
      element_depth_order_dirty |-> [l \in Layers |-> FALSE],
      fatal |-> FALSE, sort_log |-> <<>> ]

RECURSIVE AddSymbols(_, _, _)
AddSymbols(h, l, S) ==
    IF S = {} THEN h
    ELSE LET s == CHOOSE x \in S : \A y \in S : x <= y
         IN  AddSymbols(add_element(h, l, s, <<>>), l, S \ {s})

RECURSIVE AddShapes(_, _, _)
AddShapes(h, l, S) ==
    IF S = {} THEN h
    ELSE LET p == CHOOSE x \in S : \A y \in S : x[1] <= y[1]
         IN  AddShapes(add_element(h, l, p[2], <<p[1]>>), l, S \ {p})

RECURSIVE AddLocalEdges(_, _, _)
AddLocalEdges(h, l, E) ==
    IF E = {} THEN h
    ELSE LET e == CHOOSE x \in E : TRUE
         IN  AddLocalEdges(add_elements_order_dependency(h, l, e[1], e[2]),
                           l, E \ {e})

RECURSIVE AddGlobalEdges(_, _, _)
AddGlobalEdges(h, g, E) ==
    IF E = {} THEN h
    ELSE LET e == CHOOSE x \in E : TRUE
         IN  AddGlobalEdges(
                 add_global_elements_order_dependency(h, g, e[1], e[2]),
                 g, E \ {e})

SortScene(syms, shapes, local, global) ==
    AddGlobalEdges(
        AddLocalEdges(
            AddShapes(
                AddSymbols(set_children(NewHeap, Root, <<Leaf>>), Leaf, syms),
                Leaf, shapes),
            Leaf, local),
        Root, global)

InitSort ==
    \E syms \in SUBSET SymbolIds, shapes \in SUBSET SortShapes,
       local \in SUBSET DepEdges, global \in SUBSET GlobalEdges :
        LET h == SortScene(syms, shapes, local, global)
        IN  /\ alive = h.alive
            /\ elements = h.elements
            /\ shape_system_to_symbol_info_map = h.shape_system_to_symbol_info_map
            /\ symbol_to_shape_system_map = h.symbol_to_shape_system_map
            /\ symbols_ordered = h.symbols_ordered
            /\ depth_order = h.depth_order
            /\ depth_order_dirty = h.depth_order_dirty
            /\ parents = h.parents
            /\ global_element_depth_order = h.global_element_depth_order
            /\ layers = h.layers
            /\ free_ixs = h.free_ixs
            /\ layer_placement = h.layer_placement
            /\ symbols_placement = h.symbols_placement
            /\ element_depth_order_dirty = h.element_depth_order_dirty
            /\ fatal = h.fatal
            /\ sort_log = <<>>
            /\ unresolved =
                   [l \in Layers |->
                       l = Leaf /\ (syms # {} \/ shapes # {} \/ local # {})]
            /\ global_edited = [g \in Layers |-> g = Root /\ global # {}]
            /\ RegistriesConstructed
            /\ new_empty
            /\ ops = 0
            /\ limit = MaxOps

NextSort == Update(Root)

SpecSort == InitSort /\ [][NextSort]_vars

\* ------------------------------------------------- the cached view, types
\* symbols() refreshing the order on read: it sorts the layer under its local
\* graph and consumes the dirty flag.
symbols_refreshing(h, l) ==
    LET h1 == depth_sort([h EXCEPT !.depth_order_dirty[l] = FALSE], l, {})
    IN  [heap |-> [h1 EXCEPT !.sort_log = h.sort_log],
         value |-> h1.symbols_ordered[l]]

\* LayerModel::symbols: a clone of symbols_ordered. `heap` is the state the
\* call leaves, `value` the vector it returns.
symbols(h, l) == [heap |-> h, value |-> h.symbols_ordered[l]]

\* LayerModel::remove_elements_order_dependency, the returned `found`.
remove_elements_order_dependency_found(h, l, below, above) ==
    <<below, above>> \in h.depth_order[l]

\* LayerModel::add_global_elements_order_dependency, the returned `fresh`.
add_global_elements_order_dependency_fresh(h, g, below, above) ==
    <<below, above>> \notin h.global_element_depth_order[g]

\* LayerModel::remove_global_elements_order_dependency, the returned `found`.
remove_global_elements_order_dependency_found(h, g, below, above) ==
    <<below, above>> \in h.global_element_depth_order[g]

\* LayerModel::add_shapes_order_dependency::<S1,S2>; s1_id and s2_id are the
\* shape_system_id() of the two types.
add_shapes_order_dependency(h, l, s1_id, s2_id) ==
    depth_order_dirty_set(
        add_elements_order_dependency(h, l, ShapeSystem(s1_id),
                                      ShapeSystem(s2_id)), l)

\* LayerModel::remove_shapes_order_dependency::<S1,S2>, the returned `found`.
remove_shapes_order_dependency_found(h, l, s1_id, s2_id) ==
    remove_elements_order_dependency_found(h, l, ShapeSystem(s1_id),
                                           ShapeSystem(s2_id))

\* LayerModel::remove_shapes_order_dependency::<S1,S2>
remove_shapes_order_dependency(h, l, s1_id, s2_id) ==
    LET found == remove_shapes_order_dependency_found(h, l, s1_id, s2_id)
        h1 == remove_elements_order_dependency(h, l, ShapeSystem(s1_id),
                                               ShapeSystem(s2_id))
    IN  IF found THEN depth_order_dirty_set(h1, l) ELSE h1

\* One layer of a group, its elements and every dependency call of the API.
\* The shape types of the type-level calls: <<S1, S2>> by shape system id.
ShapeTypePairs == {<<1, 2>>, <<2, 1>>}

AddShapesOrderDependency(l, t) ==
    CanCall(l) /\ Commit(add_shapes_order_dependency(Heap, l, t[1], t[2]))

RemoveShapesOrderDependency(l, t) ==
    CanCall(l) /\ Commit(remove_shapes_order_dependency(Heap, l, t[1], t[2]))

InitEdits == Constructed /\ limit = MaxEditOps

NextEdits ==
    \/ SetChildren(Root, <<Leaf>>)
    \/ \E s \in SceneSymbols : AddSymbol(Leaf, s)
    \/ \E p \in SceneShapes : AddShape(Leaf, p[1], p[2])
    \/ \E s \in SceneSymbols : RemoveSymbol(Leaf, s)
    \/ \E e \in SceneEdges : AddElementsOrderDependency(Leaf, e)
    \/ \E e \in SceneEdges : RemoveElementsOrderDependency(Leaf, e)
    \/ \E e \in SceneEdges : AddGlobalElementsOrderDependency(Root, e)
    \/ \E e \in SceneEdges : RemoveGlobalElementsOrderDependency(Root, e)
    \/ \E t \in ShapeTypePairs : AddShapesOrderDependency(Leaf, t)
    \/ \E t \in ShapeTypePairs : RemoveShapesOrderDependency(Leaf, t)
    \/ Update(Root)

SpecEdits == InitEdits /\ [][NextEdits]_vars

\* ------------------------------------------------------ shared hierarchies
\* Three layers used as groups of each other: a layer registered in two
\* groups, a layer registered in itself, two layers registered in each
\* other; a second set_children of the same list registers a layer again.
Shared == CHOOSE l \in Leaves : l # Leaf

GroupLayers == {Root, Leaf, Shared}

\* The calls of set_children: <<group, layers>>.
GroupChoices ==
    { <<Root, <<Shared>>>>, <<Leaf, <<Shared>>>>, <<Root, <<Root>>>>,
      <<Root, <<Leaf>>>>, <<Leaf, <<Root>>>> }

\* The global dependency the groups are given.
GroupEdges == {<<Symbol(2), Symbol(1)>>}

InitGroups == Constructed /\ limit = MaxGroupOps

NextGroups ==
    \/ \E c \in GroupChoices : SetChildren(c[1], c[2])
    \/ \E l \in GroupLayers, s \in SceneSymbols : AddSymbol(l, s)
    \/ \E g \in {Root, Leaf}, e \in GroupEdges :
          AddGlobalElementsOrderDependency(g, e)
    \/ \E l \in GroupLayers : Update(l)

SpecGroups == InitGroups /\ [][NextGroups]_vars

\* ---------------------------------------------------- ShapeSystemRegistry
\* A shape type T is named by DynShapeSystemOf::<T>::id(), its shape system
\* id; a shape system instance is [symbol, instances]: the id of the symbol
\* of its sprite system and the number of shapes instantiated in it. The
\* registry operations take and leave the record below and the layer whose
\* registry they are called on.
Registries ==
    [ shape_system_map |-> shape_system_map, scene_symbols |-> scene_symbols,
      constructed |-> constructed ]

\* <T as ShapeSystemInstance>::new(scene): the scene creates the symbol of
\* the new system, with the next symbol id.
new_shape_system(r) ==
    [ state |-> [r EXCEPT !.scene_symbols = @ + 1],
      system |-> [symbol |-> r.scene_symbols + 1, instances |-> 0] ]

\* ShapeSystemRegistryData::get: <<>> (None) or <<system>>.
registry_get(r, l, T) ==
    IF T \in DOMAIN r.shape_system_map[l]
    THEN <<r.shape_system_map[l][T]>>
    ELSE <<>>

\* register building the system and leaving the map without it.
register_without_insert(r, l, T) ==
    LET n == new_shape_system(r)
    IN  [ state |-> [n.state EXCEPT !.constructed[l][T] = @ + 1],
          system |-> n.system ]

\* ShapeSystemRegistryData::register
register(r, l, T) ==
    LET n == new_shape_system(r)
    IN  [ state |-> [n.state EXCEPT
                        !.shape_system_map[l] = MapInsert(@, T, n.system),
                        !.constructed[l][T] = @ + 1],
          system |-> n.system ]

\* get_or_register registering on every call.
get_or_register_registering(r, l, T) == register(r, l, T)

\* ShapeSystemRegistryData::get_or_register
get_or_register(r, l, T) ==
    IF registry_get(r, l, T) # <<>>
    THEN [state |-> r, system |-> registry_get(r, l, T)[1]]
    ELSE register(r, l, T)

\* ShapeSystemRegistryData::shape_system
shape_system(r, l, T) == get_or_register(r, l, T)

\* system.instantiate(shape): the next instance index of the system of
\* symbol `symbol`, kept by every handle of that system.
system_instantiate(r, l, T) ==
    [ state |-> [r EXCEPT !.shape_system_map[l] =
                    [U \in DOMAIN @ |->
                        IF U = T THEN [@[U] EXCEPT !.instances = @ + 1]
                        ELSE @[U]]],
      instance_id |-> IF T \in DOMAIN r.shape_system_map[l]
                      THEN r.shape_system_map[l][T].instances
                      ELSE 0 ]

\* ShapeSystemRegistryData::instantiate: the state it leaves and the
\* (ShapeSystemInfo, SymbolId, InstanceIndex) it returns, the info as
\* [id, above, below].
instantiate(r, l, T) ==
    LET got == get_or_register(r, l, T)
        inst == system_instantiate(got.state, l, T)
    IN  [ state |-> inst.state,
          shape_system_info |->
              [id |-> T, above |-> StaticAbove(T), below |-> StaticBelow(T)],
          symbol_id |-> got.system.symbol,
          instance_id |-> inst.instance_id ]

\* The layers keep their state through a registry call.
CommitRegistry(r) ==
    /\ shape_system_map' = r.shape_system_map
    /\ scene_symbols' = r.scene_symbols
    /\ constructed' = r.constructed
    /\ ops' = ops + 1
    /\ UNCHANGED << alive, elements, shape_system_to_symbol_info_map,
                    symbol_to_shape_system_map, symbols_ordered, depth_order,
                    depth_order_dirty, parents, global_element_depth_order,
                    layers, free_ixs, layer_placement, symbols_placement,
                    element_depth_order_dirty, fatal, sort_log, unresolved,
                    global_edited, limit >>
    /\ UNCHANGED database_vars

\* layer.shape_system_registry.shape_system::<T>(scene, default())
ShapeSystemOf(l, T) ==
    /\ CanCall(l)
    /\ CommitRegistry(shape_system(Registries, l, T).state)
    /\ instantiated' = instantiated

\* layer.shape_system_registry.instantiate(scene, shape), shape of type T
Instantiate(l, T) ==
    /\ CanCall(l)
    /\ LET res == instantiate(Registries, l, T)
       IN  /\ CommitRegistry(res.state)
           /\ instantiated' = instantiated \cup
                  { [layer |-> l, type |-> T,
                     system_id |-> res.shape_system_info.id,
                     symbol_id |-> res.symbol_id,
                     instance_id |-> res.instance_id] }

\* The shape types of the scene.
SceneTypes == ShapeSystemIds \ {NumShapeSystems}

InitRegistry == Constructed /\ limit = MaxRegistryOps

\* The layers whose registries are used.
RegistryLayers == {Root, Leaf}

NextRegistry ==
    \/ \E l \in RegistryLayers, T \in SceneTypes : ShapeSystemOf(l, T)
    \/ \E l \in RegistryLayers, T \in SceneTypes : Instantiate(l, T)

SpecRegistry == InitRegistry /\ [][NextRegistry]_vars

\* ---------------------------------------------------- suggestion database
\* Option and Result values: <<>> is None or Err, <<x>> is Some(x) or Ok(x).
SuggestionIds == 1 .. NumSuggestions

\* The database as one value. The count of failed updates is that of one
\* event: it starts from none on entry.
Db ==
    [ entries |-> entries, version |-> version,
      notifications |-> notifications, handles |-> handles, errors |-> 0,
      absent_named |-> FALSE ]

\* language_server::types::SuggestionEntry values, as the tests build them;
\* the module name of the last one does not parse.
SuggestionPool ==
    { [kind |-> "Atom", name |-> "Entry1", module |-> "TestProject.TestModule",
       arguments |-> <<>>, return_type |-> "TestAtom", scope |-> <<>>],
      [kind |-> "Function", name |-> "entry3",
       module |-> "TestProject.TestModule", arguments |-> <<"Argument1">>,
       return_type |-> "", scope |-> <<"1:2-2:4">>],
      [kind |-> "Atom", name |-> "NewEntry2", module |-> "",
       arguments |-> <<>>, return_type |-> "TestAtom", scope |-> <<>>] }

\* Entry::from_ls_entry (suggestion.try_into()): the conversion fails on a
\* module name that does not parse; an entry has a Scope, Everywhere unless
\* the suggestion carries one, and no html documentation of its own.
from_ls_entry(suggestion) ==
    IF suggestion.module = "" THEN <<>>
    ELSE << [kind |-> suggestion.kind, name |-> suggestion.name,
             module |-> suggestion.module,
             arguments |-> suggestion.arguments,
             return_type |-> suggestion.return_type,
             documentation_html |-> <<>>,
             scope |-> IF suggestion.scope = <<>> THEN "Everywhere"
                       ELSE suggestion.scope[1]] >>

\* SuggestionsDatabaseModification values: no change; a valid change of the
\* return type; the changes of the test "Modify with some invalid fields".
EmptyModification ==
    [arguments |-> <<>>, return_type |-> <<>>, documentation_html |-> <<>>,
     scope |-> <<>>]

ModificationPool ==
    { EmptyModification,
      [EmptyModification EXCEPT !.return_type = <<"TestAtom2">>],
      [arguments |-> <<"Remove0">>, return_type |-> <<"TestAtom2">>,
       documentation_html |-> <<"<p>Blah blah</p>">>,
       scope |-> <<"4:10-8:12">>] }

\* Entry::apply_modifications: every field change is tried; removing
\* argument 0 of an entry without arguments and setting the scope of an entry
\* visible everywhere are errors that leave the field as it was.
apply_modifications(entry, m) ==
    LET args_bad == m.arguments # <<>> /\ entry.arguments = <<>>
        scope_bad == m.scope # <<>> /\ entry.scope = "Everywhere"
    IN  [ entry |->
              [entry EXCEPT
                  !.arguments = IF m.arguments # <<>> /\ ~args_bad
                                THEN Tail(@) ELSE @,
                  !.return_type = IF m.return_type # <<>>
                                  THEN m.return_type[1] ELSE @,
                  !.documentation_html = IF m.documentation_html # <<>>
                                         THEN m.documentation_html ELSE @,
                  !.scope = IF m.scope # <<>> /\ ~scope_bad
                            THEN m.scope[1] ELSE @],
          errors |-> (IF args_bad THEN 1 ELSE 0) + (IF scope_bad THEN 1 ELSE 0) ]

\* DataStore::insert_entry keeping the entry already stored under the id.
insert_entry_keeping_old(storage, id, entry) ==
    IF id \in DOMAIN storage THEN storage ELSE MapInsert(storage, id, entry)

\* DataStore::insert_entry
insert_entry(storage, id, entry) == MapInsert(storage, id, entry)

\* DataStore::remove_entry: the storage left and the Option returned.
remove_entry(storage, id) ==
    [ storage |-> MapRemove(storage, id),
      removed |-> IF id \in DOMAIN storage THEN <<storage[id]>> ELSE <<>> ]

\* An Rc<Entry> a caller holds: the id it was looked up under, whether it
\* is the allocation the store holds for that id (Rc::ptr_eq), the Entry in
\* its allocation and, as history, the Entry it showed when it was obtained.
Handle(id, entry) ==
    [id |-> id, shared |-> TRUE, entry |-> entry, obtained |-> entry]

\* Rc::strong_count of the store's Rc of id is more than one.
is_shared(held, id) ==
    \E i \in DOMAIN held : held[i].id = id /\ held[i].shared

\* The store lets go of its Rc of id (HashMap::insert over the key,
\* HashMap::remove): the callers' handles keep the allocation.
rc_dropped(held, id) ==
    [i \in DOMAIN held |->
        IF held[i].id = id THEN [held[i] EXCEPT !.shared = FALSE] ELSE held[i]]

\* Rc::make_mut on the store's Rc of id: a shared allocation is cloned, the
\* store takes the clone and the handles keep the original; a unique one is
\* borrowed as it is.
make_mut(held, id) == IF is_shared(held, id) THEN rc_dropped(held, id) ELSE held

\* DataStore::update_entry applying a modification only when every one of
\* its field changes is valid.
update_entry_atomic(storage, held, id, modification) ==
    IF id \in DOMAIN storage
    THEN LET r == apply_modifications(storage[id], modification)
         IN  [ storage |-> IF r.errors = 0
                           THEN [storage EXCEPT ![id] = r.entry]
                           ELSE storage,
               handles |-> make_mut(held, id),
               result |-> IF r.errors = 0 THEN <<"Ok">>
                          ELSE <<"Err", <<"UpdateFailures", r.errors>>>> ]
    ELSE [ storage |-> storage, handles |-> held,
           result |-> <<"Err", <<"InvalidEntry", id>>>> ]

\* DataStore::update_entry modifying the allocation the store's Rc points
\* to, shared or not.
update_entry_in_place(storage, held, id, modification) ==
    IF id \in DOMAIN storage
    THEN LET r == apply_modifications(storage[id], modification)
         IN  [ storage |-> [storage EXCEPT ![id] = r.entry],
               handles |->
                   [i \in DOMAIN held |->
                       IF held[i].id = id /\ held[i].shared
                       THEN [held[i] EXCEPT !.entry = r.entry]
                       ELSE held[i]],
               result |-> IF r.errors = 0 THEN <<"Ok">>
                          ELSE <<"Err", <<"UpdateFailures", r.errors>>>> ]
    ELSE [ storage |-> storage, handles |-> held,
           result |-> <<"Err", <<"InvalidEntry", id>>>> ]

\* DataStore::update_entry: the storage and the handles left, and the
\* Result: Ok, Err(UpdateFailures(errors)) with the number of errors, or
\* Err(InvalidEntry(id)).
update_entry(storage, held, id, modification) ==
    IF id \in DOMAIN storage
    THEN LET r == apply_modifications(storage[id], modification)
         IN  [ storage |-> [storage EXCEPT ![id] = r.entry],
               handles |-> make_mut(held, id),
               result |-> IF r.errors = 0 THEN <<"Ok">>
                          ELSE <<"Err", <<"UpdateFailures", r.errors>>>> ]
    ELSE [ storage |-> storage, handles |-> held,
           result |-> <<"Err", <<"InvalidEntry", id>>>> ]

\* DataStore::get_entry
get_entry(storage, id) ==
    IF id \in DOMAIN storage THEN <<storage[id]>> ELSE <<>>

\* SuggestionDatabase::lookup: <<"Ok", entry>> or <<"Err", NoSuchEntry(id)>>.
lookup(d, id) ==
    IF get_entry(d.entries, id) # <<>>
    THEN <<"Ok", get_entry(d.entries, id)[1]>>
    ELSE <<"Err", <<"NoSuchEntry", id>>>>

\* notification::Publisher::notify
notify(d, notification) ==
    [d EXCEPT !.notifications = Append(@, notification)]

\* entry::Update values: <<"Add", id, suggestion>>, <<"Remove", id>> and
\* <<"Modify", id, modification>>.
UpdatePool ==
    {<<"Add", id, s>> : id \in SuggestionIds, s \in SuggestionPool}
    \cup {<<"Remove", id>> : id \in SuggestionIds}
    \cup {<<"Modify", id, m>> : id \in SuggestionIds, m \in ModificationPool}

\* One turn of the loop of apply_update_event.
apply_update(d, upd) ==
    LET id == upd[2]
    IN  CASE upd[1] = "Add" ->
                 LET entry == from_ls_entry(upd[3])
                 IN  IF entry # <<>>
                     THEN [d EXCEPT !.entries = insert_entry(@, id, entry[1]),
                                    !.handles = rc_dropped(@, id)]
                     ELSE [d EXCEPT !.errors = @ + 1]
          [] upd[1] = "Remove" ->
                 LET r == remove_entry(d.entries, id)
                 IN  [d EXCEPT !.entries = r.storage,
                               !.handles = rc_dropped(@, id),
                               !.errors = IF r.removed = <<>> THEN @ + 1 ELSE @,
                               !.absent_named = @ \/ r.removed = <<>>]
          [] upd[1] = "Modify" ->
                 LET r == update_entry(d.entries, d.handles, id, upd[3])
                 IN  [d EXCEPT !.entries = r.storage,
                               !.handles = r.handles,
                               !.errors = IF r.result[1] = "Ok" THEN @
                                          ELSE @ + 1,
                               !.absent_named =
                                   @ \/ r.result = <<"Err", <<"InvalidEntry", id>>>>]

\* The loop of apply_update_event leaving at the first update that fails.
RECURSIVE apply_updates_aborting(_, _)
apply_updates_aborting(d, updates) ==
    IF updates = <<>> \/ d.errors > 0 THEN d
    ELSE apply_updates_aborting(apply_update(d, Head(updates)), Tail(updates))

\* The loop of apply_update_event over the updates of the event.
RECURSIVE apply_updates(_, _)
apply_updates(d, updates) ==
    IF updates = <<>> THEN d
    ELSE apply_updates(apply_update(d, Head(updates)), Tail(updates))

\* apply_update_event publishing after every update of the event.
RECURSIVE apply_updates_notifying(_, _)
apply_updates_notifying(d, updates) ==
    IF updates = <<>> THEN d
    ELSE apply_updates_notifying(
             notify(apply_update(d, Head(updates)), "Updated"), Tail(updates))

apply_update_event_notifying_each(d, event) ==
    [apply_updates_notifying(d, event.updates) EXCEPT
        !.version = event.current_version]

\* SuggestionDatabase::apply_update_event
apply_update_event(d, event) ==
    notify([apply_updates(d, event.updates) EXCEPT
               !.version = event.current_version],
           "Updated")

\* from_ls_response giving up at the first entry that does not convert.
RECURSIVE from_entries_until_invalid(_, _)
from_entries_until_invalid(storage, ls_entries) ==
    IF ls_entries = <<>> THEN storage
    ELSE LET entry == from_ls_entry(Head(ls_entries).suggestion)
         IN  IF entry = <<>> THEN storage
             ELSE from_entries_until_invalid(
                      MapInsert(storage, Head(ls_entries).id, entry[1]),
                      Tail(ls_entries))

\* SuggestionDatabase::from_ls_response: the entries that convert, a later
\* entry replacing an earlier one of the same id.
RECURSIVE from_entries(_, _)
from_entries(storage, ls_entries) ==
    IF ls_entries = <<>> THEN storage
    ELSE LET entry == from_ls_entry(Head(ls_entries).suggestion)
         IN  from_entries(
                 IF entry = <<>> THEN storage
                 ELSE MapInsert(storage, Head(ls_entries).id, entry[1]),
                 Tail(ls_entries))

from_ls_response(response) ==
    [ entries |-> from_entries(<<>>, response.entries),
      version |-> response.current_version,
      notifications |-> <<>>, handles |-> <<>>, errors |-> 0,
      absent_named |-> FALSE ]

\* The responses the database is created from: up to one entry per id.
Responses ==
    { [entries |-> es, current_version |-> v] :
        es \in {<<>>}
               \cup {<<[id |-> i, suggestion |-> s]>> :
                        i \in SuggestionIds, s \in SuggestionPool}
               \cup {<<[id |-> 1, suggestion |-> s], [id |-> 2, suggestion |-> t]>> :
                        s \in SuggestionPool, t \in SuggestionPool},
        v \in {1} }

\* The updates of an event: none, one or two; and the versions events
\* carry.
UpdateSeqs ==
    {<<>>} \cup {<<u>> : u \in UpdatePool}
           \cup {<<u, w>> : u \in UpdatePool, w \in UpdatePool}

Versions == 1 .. MaxVersion

\* SuggestionDatabaseUpdatesEvent
Event(updates, current_version) ==
    [updates |-> updates, current_version |-> current_version]

CommitDatabase(d) ==
    /\ entries' = d.entries
    /\ version' = d.version
    /\ notifications' = d.notifications
    /\ errors' = d.errors
    /\ handles' = d.handles
    /\ absent_named' = d.absent_named
    /\ events' = events + 1
    /\ ls_response' = <<>>
    /\ ops' = ops + 1
    /\ UNCHANGED << alive, elements, shape_system_to_symbol_info_map,
                    symbol_to_shape_system_map, symbols_ordered, depth_order,
                    depth_order_dirty, parents, global_element_depth_order,
                    layers, free_ixs, layer_placement, symbols_placement,
                    element_depth_order_dirty, fatal, sort_log, unresolved,
                    global_edited, limit >>
    /\ UNCHANGED registry_vars

ApplyUpdateEvent(event) ==
    ops < limit /\ CommitDatabase(apply_update_event(Db, event))

InitDatabase ==
    /\ LayersConstructed /\ RegistriesConstructed
    /\ \E r \in Responses :
          LET d == from_ls_response(r)
          IN  /\ entries = d.entries
              /\ version = d.version
              /\ notifications = d.notifications
              /\ errors = d.errors
              /\ handles = d.handles
              /\ absent_named = d.absent_named
              /\ ls_response = <<r>>
    /\ events = 0
    /\ ops = 0
    /\ limit = MaxDatabaseOps

NextDatabase ==
    \E us \in UpdateSeqs, v \in Versions : ApplyUpdateEvent(Event(us, v))

SpecDatabase == InitDatabase /\ [][NextDatabase]_vars

\* The callers that keep what lookup returned while updates arrive. The
\* database is built from a response of two entries that convert; an event
\* carries one update.
CommitLookup(held) ==
    /\ handles' = held
    /\ ops' = ops + 1
    /\ UNCHANGED << entries, version, notifications, errors, events,
                    absent_named, ls_response >>
    /\ UNCHANGED << alive, elements, shape_system_to_symbol_info_map,
                    symbol_to_shape_system_map, symbols_ordered, depth_order,
                    depth_order_dirty, parents, global_element_depth_order,
                    layers, free_ixs, layer_placement, symbols_placement,
                    element_depth_order_dirty, fatal, sort_log, unresolved,
                    global_edited, limit >>
    /\ UNCHANGED registry_vars

\* A caller calls lookup and keeps the Rc of an Ok (get_entry clones it).
Lookup(id) ==
    /\ ops < limit
    /\ Len(handles) < MaxHandles
    /\ LET r == lookup(Db, id)
       IN  CommitLookup(IF r[1] = "Ok"
                        THEN Append(handles, Handle(id, r[2]))
                        ELSE handles)

InitHandles ==
    /\ LayersConstructed /\ RegistriesConstructed
    /\ \E r \in Responses :
          LET d == from_ls_response(r)
          IN  /\ Len(r.entries) > 1
              /\ Cardinality(DOMAIN d.entries) = Len(r.entries)
              /\ entries = d.entries
              /\ version = d.version
              /\ notifications = d.notifications
              /\ errors = d.errors
              /\ handles = d.handles
              /\ absent_named = d.absent_named
              /\ ls_response = <<r>>
    /\ events = 0
    /\ ops = 0
    /\ limit = MaxHandleOps

NextHandles ==
    \/ \E id \in SuggestionIds : Lookup(id)
    \/ \E u \in UpdatePool : ApplyUpdateEvent(Event(<<u>>, MaxVersion))

SpecHandles == InitHandles /\ [][NextHandles]_vars

\* ----------------------------------------------------------------- claims
\* The heap the next g.update() leaves.
AfterUpdate(g) == update(Heap, g)

\* The live layers registered in g, as children() returns them.
LiveChildren(h, g) == SeqToSet(children(h, g))

RECURSIVE Closure(_, _, _)
Closure(h, S, n) ==
    IF n = 0 THEN S
    ELSE Closure(h, S \cup UNION {LiveChildren(h, x) : x \in S}, n - 1)

\* The layers update() on r can reach through live children.
LiveDescendants(h, r) == Closure(h, LiveChildren(h, r), NumLayers)

\* The symbols the elements of l draw (bare, or through a shape system).
SymbolsOf(h, l) ==
    UNION {SeqToSet(symbol_id_of_element(h, l, e)) : e \in h.elements[l]}

\* symbols() of l is the resolution of its elements under the graph of one
\* of the groups it is registered in (no global edge when it is in none).
UpToDate(h, l) ==
    IF h.parents[l] = <<>>
    THEN h.symbols_ordered[l] = resolved(h, l, {})
    ELSE \E g \in SeqToSet(h.parents[l]) :
            h.symbols_ordered[l] = resolved(h, l, h.global_element_depth_order[g])

\* l or a group it is registered in is flagged for the next update.
MarkedDirty(h, l) ==
    \/ h.depth_order_dirty[l]
    \/ \E g \in SeqToSet(h.parents[l]) : h.element_depth_order_dirty[g]

\* C1: in every reachable state, symbols() of every live layer is the
\* resolution of its current elements under the effective combined graph, or
\* the layer is marked as needing resolution.
C1_NeverSilentlyStale ==
    \A l \in Layers : alive[l] => UpToDate(Heap, l) \/ MarkedDirty(Heap, l)

\* C2: when a live registered child l of g has changes made since it was
\* last resolved, l.symbols() is up to date when the next g.update() returns.
C2_ChildResolvedByGroupUpdate ==
    \A g \in Layers : \A l \in LiveChildren(Heap, g) :
        (alive[g] /\ ~fatal /\ unresolved[l]) => UpToDate(AfterUpdate(g), l)

\* C3: after an edit that changed the global graph of g, the next g.update()
\* re-resolves every live child of g against the changed graph, also a child
\* with no unresolved change of its own.
C3_GlobalEditResolvesEveryChild ==
    \A g \in Layers : (alive[g] /\ ~fatal /\ global_edited[g]) =>
        LET h == AfterUpdate(g)
        IN  \A c \in LiveChildren(Heap, g) :
                ~unresolved[c] =>
                    h.symbols_ordered[c] =
                        resolved(h, c, h.global_element_depth_order[g])

\* C4: r.update() reaches every live descendant: a descendant d with
\* unresolved changes, flagged in d and in every group d is registered in,
\* has d.symbols() up to date when r.update() returns.
C4_UpdateReachesDescendants ==
    \A r \in Layers : \A d \in LiveDescendants(Heap, r) :
        ( /\ alive[r]
          /\ ~fatal
          /\ unresolved[d]
          /\ depth_order_dirty[d]
          /\ \A g \in SeqToSet(parents[d]) : element_depth_order_dirty[g] )
        => UpToDate(AfterUpdate(r), d)

\* C5: on a new layer holding symbols 1, 2, 3 with the local dependencies
\* (3 below 1) and (1 below 2), update() makes symbols() [3,1,2]; with the
\* dependency (3,1) removed again, update() makes symbols() [1,2,3].
C5_EndToEndScenario ==
    LET all3 == {Symbol(1), Symbol(2), Symbol(3)}
        e31 == <<Symbol(3), Symbol(1)>>
        e12 == <<Symbol(1), Symbol(2)>>
        holds == parents[Root] = <<>> /\ elements[Root] = all3
    IN  /\ (holds /\ depth_order[Root] = {e31, e12})
              => AfterUpdate(Root).symbols_ordered[Root] = <<3, 1, 2>>
        /\ (holds /\ depth_order[Root] = {e12})
              => AfterUpdate(Root).symbols_ordered[Root] = <<1, 2, 3>>

\* C6: after l.add_symbol_exclusive(s) or l.add_shape_exclusive(id, s)
\* returns, s is in the element set of l and of no other live layer.
C6_ExclusiveAddLeavesOneHolder ==
    \A l \in Layers, s \in SymbolIds :
      \A info \in {<<>>} \cup {<<id>> : id \in ShapeSystemIds} :
        (alive[l] /\ ~fatal) =>
            LET h == add_element_exclusive(Heap, l, s, info)
            IN  /\ s \in SymbolsOf(h, l)
                /\ \A o \in Layers \ {l} : alive[o] => s \notin SymbolsOf(h, o)

\* C7: for live layers l1, l2 registered in a common group g with s present
\* in l1, after l2.add_symbol_exclusive(s) and g.update(), l1.symbols() does
\* not contain s and l2.symbols() contains s.
C7_ExclusivePlacementAfterUpdate ==
    \A g \in Layers, s \in SymbolIds :
      \A l1 \in LiveChildren(Heap, g), l2 \in LiveChildren(Heap, g) :
        (alive[g] /\ ~fatal /\ l1 # l2 /\ s \in SymbolsOf(Heap, l1)) =>
            LET h == update(add_element_exclusive(Heap, l2, s, <<>>), g)
            IN  /\ s \notin SeqToSet(h.symbols_ordered[l1])
                /\ s \in SeqToSet(h.symbols_ordered[l2])

\* C8: once a layer l registered in g is destroyed, no symbol-placement list
\* of g contains l and g.get_child(l.id()) is absent.
C8_DestructionCleanup ==
    \A l \in Layers : ~alive[l] =>
        \A g \in SeqToSet(parents[l]) :
            /\ \A s \in SymbolIds : l \notin SeqToSet(symbols_placement[g][s])
            /\ get_child(Heap, g, l) = <<>>

\* C9: a destroyed layer has neither a layer_placement entry nor an occupied
\* slot in any group, so every occupied slot refers to a live layer.
C9_NoSlotOfDroppedLayer ==
    \A g \in Layers :
        /\ \A l \in DOMAIN layer_placement[g] : alive[l]
        /\ \A i \in DOMAIN layers[g] : layers[g][i] # <<>> => alive[layers[g][i][1]]

\* C10: l is listed in the symbol-placement entry of g for s exactly when l
\* is a live child of g whose elements draw s.
C10_PlacementMatchesElements ==
    \A g \in Layers, s \in SymbolIds, l \in Layers :
        l \in SeqToSet(symbols_placement[g][s])
        <=> (l \in LiveChildren(Heap, g) /\ s \in SymbolsOf(Heap, l))

\* C11: after g.set_children(ls) returns, g.children() is exactly ls, each
\* layer once and in the given order, whatever children g had before.
C11_SetChildrenReplaces ==
    \A c \in ChildChoices :
        (alive[c[1]] /\ ~fatal /\ \A i \in DOMAIN c[2] : alive[c[2][i]]) =>
            children(set_children(Heap, c[1], c[2]), c[1]) = c[2]

\* C12: after l.remove_symbol(s) returns, the elements of l hold neither
\* Symbol(s) nor a shape system registered to s, l has no shape-system
\* association for s in either direction, no placement list for s of a
\* parent contains l, and the dirty flag of l is set.
C12_RemoveSymbolPostconditions ==
    \A l \in Layers, s \in SymbolIds :
        (alive[l] /\ ~fatal) =>
            LET h == remove_symbol(Heap, l, s)
            IN  /\ s \notin SymbolsOf(h, l)
                /\ s \notin DOMAIN h.symbol_to_shape_system_map[l]
                /\ \A id \in DOMAIN h.shape_system_to_symbol_info_map[l] :
                       h.shape_system_to_symbol_info_map[l][id] # s
                /\ \A g \in SeqToSet(h.parents[l]) :
                       l \notin SeqToSet(h.symbols_placement[g][s])
                /\ h.depth_order_dirty[l]

\* C13: in every layer, each SymbolId is the registered symbol of at most
\* one ShapeSystemId of shape_system_to_symbol_info_map.
C13_SymbolInOneShapeSystem ==
    \A l \in Layers :
        \A id1 \in DOMAIN shape_system_to_symbol_info_map[l] :
            \A id2 \in DOMAIN shape_system_to_symbol_info_map[l] :
                id1 # id2 =>
                    shape_system_to_symbol_info_map[l][id1]
                        # shape_system_to_symbol_info_map[l][id2]

\* C14: an element leaves the element set of a live layer l only in a step
\* that removes its own symbol from l: remove_symbol of that symbol on l, or
\* an exclusive add of that symbol on some layer.
C14_ElementsPersist ==
    [][\A l \in Layers : alive'[l] =>
          \A e \in elements[l] \ elements'[l] :
              \E s \in SeqToSet(symbol_id_of_element(Heap, l, e)) :
                  \/ RemoveSymbol(l, s)
                  \/ \E l2 \in Layers :
                        \/ AddSymbolExclusive(l2, s)
                        \/ \E id \in ShapeSystemIds : AddShapeExclusive(l2, id, s)
      ]_vars

\* ------------------------------------------------- claims about the sort
\* depth_sort ran on l in the last step.
Sorted(l) == l \in SeqToSet(sort_log)

\* The union of the three sources of edges for layer l of group g: the
\* global edges of g, the local edges of l and, for each shape-system element
\* of l, its static below and above lists.
UnionGraph(l, g) ==
    global_element_depth_order[g] \cup depth_order[l] \cup
    UNION { {<<ShapeSystem(id), ShapeSystem(x)>> : x \in StaticBelow(id)}
            \cup {<<ShapeSystem(x), ShapeSystem(id)>> : x \in StaticAbove(id)}
          : id \in {i \in ShapeSystemIds : ShapeSystem(i) \in elements[l]} }

\* The symbol an element of l is drawn under.
SymbolOf(l, e) == symbol_id_of_element(Heap, l, e)[1]

Before(seq, a, b) ==
    \E i \in DOMAIN seq, j \in DOMAIN seq : i < j /\ seq[i] = a /\ seq[j] = b

\* C15: when a layer is resolved against an acyclic combined graph, for every
\* edge (below, above) with both endpoints among the layer's elements the
\* symbol of below is strictly before the symbol of above in symbols().
C15_TopoSortRespectsEdges ==
    \A l \in Layers : Sorted(l) =>
        \A g \in SeqToSet(parents[l]) :
            Acyclic(UnionGraph(l, g)) =>
                \A e \in Within(UnionGraph(l, g), elements[l]) :
                    Before(symbols_ordered[l], SymbolOf(l, e[1]), SymbolOf(l, e[2]))

\* A layer of three or more elements was resolved against an acyclic graph
\* with an edge that puts a greater item below a smaller one.
C15_Witness ==
    \E l \in Layers : \E g \in SeqToSet(parents[l]) :
        /\ Sorted(l)
        /\ Cardinality(elements[l]) >= 3
        /\ Acyclic(UnionGraph(l, g))
        /\ \E e \in Within(UnionGraph(l, g), elements[l]) : ItemLess(e[2], e[1])

\* C16: for any dependency edges, also ones forming a cycle in the combined
\* graph, resolving a layer completes and symbols() holds the symbol of every
\* element of the layer exactly once.
C16_CycleSurvival ==
    \A l \in Layers : Sorted(l) =>
        /\ Len(symbols_ordered[l]) = Cardinality(elements[l])
        /\ \A s \in SymbolIds :
               Count(symbols_ordered[l], s) = ElementsOfSymbol(Heap, l, s)

\* A layer of three or more elements was resolved with every element on a
\* cycle (A -> B -> C -> A) that only the union of the sources forms.
C16_Witness ==
    \E l \in Layers : \E g \in SeqToSet(parents[l]) :
        /\ Sorted(l)
        /\ Cardinality(elements[l]) >= 3
        /\ \A a \in elements[l] :
               a \in Successors(Within(UnionGraph(l, g), elements[l]), a)
        /\ Acyclic(global_element_depth_order[g])
        /\ Acyclic(depth_order[l])

\* Distinct elements of l are drawn under distinct symbols.
Injective(l) == Cardinality(SymbolsOf(Heap, l)) = Cardinality(elements[l])

\* The element of l drawn under symbol s.
ElementOf(l, s) ==
    CHOOSE e \in elements[l] : symbol_id_of_element(Heap, l, e) = <<s>>

\* No path of E leads from a to b or from b to a.
Unconstrained(E, a, b) == b \notin Successors(E, a) /\ a \notin Successors(E, b)

\* C17 as claimed: any two elements with no relative constraint are resolved
\* in ascending LayerItem order (variant tag first, then id).
C17_UnconstrainedAscending ==
    \A l \in Layers : (Sorted(l) /\ Injective(l)) =>
        \A g \in SeqToSet(parents[l]) :
            LET G == Within(UnionGraph(l, g), elements[l])
            IN  \A a \in elements[l], b \in elements[l] :
                    (ItemLess(a, b) /\ Unconstrained(G, a, b)) =>
                        Before(symbols_ordered[l], SymbolOf(l, a), SymbolOf(l, b))

\* C17 as amended: every position of the resolved order holds the least
\* item, in LayerItem order, among the elements with no predecessor still to
\* be placed (the least remaining element when a cycle leaves none), so a
\* layer with no applicable edge resolves to ascending order.
C17_LeastReadyFirst ==
    \A l \in Layers : (Sorted(l) /\ Injective(l)) =>
        \A g \in SeqToSet(parents[l]) :
            LET G == Within(UnionGraph(l, g), elements[l])
                so == symbols_ordered[l]
                At(i) == ElementOf(l, so[i])
            IN  /\ Len(so) = Cardinality(elements[l])
                /\ \A i \in DOMAIN so :
                       LET rest == elements[l] \ {At(j) : j \in 1 .. (i - 1)}
                           ready == {e \in rest : \A q \in rest : <<q, e>> \notin G}
                       IN  At(i) = MinItem(IF ready # {} THEN ready ELSE rest)

\* A layer of three or more elements was resolved with an applicable edge
\* and with two elements that no path relates.
C17_Witness ==
    \E l \in Layers : \E g \in SeqToSet(parents[l]) :
        LET G == Within(UnionGraph(l, g), elements[l])
        IN  /\ Sorted(l)
            /\ Injective(l)
            /\ Cardinality(elements[l]) >= 3
            /\ G # {}
            /\ \E a \in elements[l], b \in elements[l] :
                   ItemLess(a, b) /\ Unconstrained(G, a, b)

\* C18: an edge of the combined graph with an endpoint outside the element
\* set of the layer places no constraint on it: the layer resolves to the
\* order it resolves to with the edge absent.
C18_OutsideEdgesNoConstraint ==
    \A l \in Layers : Sorted(l) =>
        \A g \in SeqToSet(parents[l]) :
            \A e \in UnionGraph(l, g) \ Within(UnionGraph(l, g), elements[l]) :
                symbols_ordered[l] =
                    sorted_symbols(Heap, l,
                        into_unchecked_topo_sort(UnionGraph(l, g) \ {e},
                                                 elements[l]))

\* A layer of two or more elements was resolved while the global graph of
\* its group held an edge from an item outside the layer to an element of the
\* layer, and that element is first in symbols().
C18_Witness ==
    \E l \in Layers : \E g \in SeqToSet(parents[l]) :
        /\ Sorted(l)
        /\ Injective(l)
        /\ Cardinality(elements[l]) >= 2
        /\ \E e \in global_element_depth_order[g] :
               /\ e[1] \notin elements[l]
               /\ e[2] \in elements[l]
               /\ symbols_ordered[l][1] = SymbolOf(l, e[2])

\* C19: a step that resolves layer l stores the resolution of its elements
\* under exactly the union of the global edges of the updating group, the
\* local edges of l and the static edges of its shape-system elements, and
\* leaves the global and the local graphs as they were.
C19_CombinedGraphIsUnion ==
    [][\A l \in Layers : l \in SeqToSet(sort_log') =>
          /\ global_element_depth_order' = global_element_depth_order
          /\ depth_order' = depth_order
          /\ \E g \in SeqToSet(parents[l]) :
                 symbols_ordered'[l] =
                     sorted_symbols(Heap, l,
                         into_unchecked_topo_sort(UnionGraph(l, g), elements[l]))
      ]_vars

\* A layer was resolved with an edge between its elements from each of the
\* three sources, the global and the local edge meeting at one item.
C19_Witness ==
    \E l \in Layers : \E g \in SeqToSet(parents[l]) :
        /\ Sorted(l)
        /\ Acyclic(UnionGraph(l, g))
        /\ \E eg \in Within(global_element_depth_order[g], elements[l]) :
               \E el \in Within(depth_order[l], elements[l]) :
                   /\ eg \notin depth_order[l]
                   /\ el \notin global_element_depth_order[g]
                   /\ {eg[1], eg[2]} \cap {el[1], el[2]} # {}
        /\ \E es \in Within(UnionGraph(l, g), elements[l]) :
               es \notin global_element_depth_order[g] \cup depth_order[l]

\* The shape-system ids the combined graph of l mentions that have no
\* registered symbol in l.
UnmappedInGraph(l, g) ==
    {i \in ShapeSystemIds :
        /\ ShapeSystem(i) \in Endpoints(UnionGraph(l, g))
        /\ i \notin DOMAIN shape_system_to_symbol_info_map[l]}

\* C20: a shape-system item with no registered symbol in the layer adds no
\* entry to symbols(): after a resolve symbols() has one entry for each
\* element with a symbol and holds exactly the symbols of the elements, also
\* when dependencies mention shape-system ids without a mapping.
C20_UnmappedShapeSystemDropped ==
    \A l \in Layers : Sorted(l) =>
        /\ SeqToSet(symbols_ordered[l]) = SymbolsOf(Heap, l)
        /\ Len(symbols_ordered[l]) =
               Cardinality({e \in elements[l] :
                               symbol_id_of_element(Heap, l, e) # <<>>})

\* A layer holding a bare symbol and a shape was resolved while its combined
\* graph mentioned a shape system with no registered symbol in the layer.
C20_Witness ==
    \E l \in Layers : \E g \in SeqToSet(parents[l]) :
        /\ Sorted(l)
        /\ UnmappedInGraph(l, g) # {}
        /\ \E e \in elements[l] : IsShapeSystem(e)
        /\ \E e \in elements[l] : ~IsShapeSystem(e)

\* A call of the local dependency API: <<"add" or "remove", edge>>.
EditCalls == {"add", "remove"} \X SceneEdges

\* The sequences of one or two such calls.
EditSeqs == {<<c>> : c \in EditCalls} \cup {<<c, d>> : c, d \in EditCalls}

DependencyEdit(h, l, c) ==
    IF c[1] = "add"
    THEN add_elements_order_dependency(h, l, c[2][1], c[2][2])
    ELSE remove_elements_order_dependency(h, l, c[2][1], c[2][2])

RECURSIVE DependencyEdits(_, _, _)
DependencyEdits(h, l, cs) ==
    IF cs = <<>> THEN h
    ELSE DependencyEdits(DependencyEdit(h, l, Head(cs)), l, Tail(cs))

\* Every call of cs changes the edge set of l at the moment it is made.
RECURSIVE EveryEditChanges(_, _, _)
EveryEditChanges(h, l, cs) ==
    \/ cs = <<>>
    \/ /\ DependencyEdit(h, l, Head(cs)).depth_order[l] # h.depth_order[l]
       /\ EveryEditChanges(DependencyEdit(h, l, Head(cs)), l, Tail(cs))

\* The layers whose update() covers l: l itself and the live layers l is a
\* live descendant of.
PassesCovering(l) ==
    {g \in Layers : alive[g] /\ (g = l \/ l \in LiveDescendants(Heap, g))}

\* C21: when an update pass has just resolved layer l, and one or two
\* dependency edits that change its edge set are then applied to l, the next
\* update pass that covers l sorts l exactly once.
C21_EditsCoalesceIntoOneSort ==
    \A l \in Layers : (Sorted(l) /\ alive[l] /\ ~fatal) =>
        \A g \in PassesCovering(l) : \A cs \in EditSeqs :
            EveryEditChanges(Heap, l, cs) =>
                Count(update(DependencyEdits(Heap, l, cs), g).sort_log, l) = 1

\* A step of one of the calls that are made between two update passes:
\* add_symbol, add_shape, remove_symbol and the dependency edits, local,
\* type-level and global.
EditStep ==
    \/ \E l \in Layers, s \in SymbolIds : AddSymbol(l, s) \/ RemoveSymbol(l, s)
    \/ \E l \in Layers, id \in ShapeSystemIds, s \in SymbolIds : AddShape(l, id, s)
    \/ \E l \in Layers, e \in LayerItems \X LayerItems :
          \/ AddElementsOrderDependency(l, e)
          \/ RemoveElementsOrderDependency(l, e)
          \/ AddGlobalElementsOrderDependency(l, e)
          \/ RemoveGlobalElementsOrderDependency(l, e)
    \/ \E l \in Layers, t \in ShapeSystemIds \X ShapeSystemIds :
          AddShapesOrderDependency(l, t) \/ RemoveShapesOrderDependency(l, t)

\* C22: symbols() is a pure read of the cached order: a step of add_symbol,
\* add_shape, remove_symbol or of a local or global dependency edit leaves the
\* value symbols() returns for every layer unchanged, and a call of symbols()
\* leaves the state as it was, before and after the step.
C22_SymbolsIsPureRead ==
    [][EditStep =>
          \A l \in Layers :
              /\ symbols(Heap', l).value = symbols(Heap, l).value
              /\ symbols(Heap, l).heap = Heap
              /\ symbols(Heap', l).heap = Heap']_vars

\* A layer resolved by an earlier pass has had its elements changed since:
\* symbols() still returns the order of that pass, which no longer holds the
\* symbols of the layer's elements, and the layer waits for the next pass.
C22_Witness ==
    \E l \in Layers :
        /\ alive[l] /\ depth_order_dirty[l] /\ sort_log = <<>>
        /\ symbols(Heap, l).value # <<>>
        /\ SeqToSet(symbols(Heap, l).value) # SymbolsOf(Heap, l)

\* C23: add_elements_order_dependency(b, a) on a live layer inserts the edge
\* and performs the set of the dirty flag if and only if the edge was not in
\* the local graph; remove_elements_order_dependency(b, a) returns true,
\* removes the edge and performs the set of the dirty flag if and only if the
\* edge was present; a call that does not change the edge set leaves the
\* whole state unchanged, and neither call ends in a panic.
C23_LocalEditDirtyIffChanged ==
    \A l \in Layers : (alive[l] /\ ~fatal) =>
        \A b \in LayerItems, a \in LayerItems :
            LET present == <<b, a>> \in depth_order[l]
                added == add_elements_order_dependency(Heap, l, b, a)
                removed == remove_elements_order_dependency(Heap, l, b, a)
                found == remove_elements_order_dependency_found(Heap, l, b, a)
            IN  /\ added.depth_order[l] = depth_order[l] \cup {<<b, a>>}
                /\ added.depth_order_dirty[l] = (depth_order_dirty[l] \/ ~present)
                /\ present => added = Heap
                /\ ~present => added = depth_order_dirty_set(
                                  [Heap EXCEPT !.depth_order[l] =
                                      @ \cup {<<b, a>>}], l)
                /\ found = present
                /\ removed.depth_order[l] = depth_order[l] \ {<<b, a>>}
                /\ removed.depth_order_dirty[l] = (depth_order_dirty[l] \/ found)
                /\ ~found => removed = Heap
                /\ found => removed = depth_order_dirty_set(
                                [Heap EXCEPT !.depth_order[l] =
                                    @ \ {<<b, a>>}], l)
                /\ ~added.fatal /\ ~removed.fatal

\* A registered layer whose flag an update pass has cleared holds one edge of
\* the scene and lacks another: re-adding the first or removing the second
\* changes nothing, adding the second or removing the first marks the layer.
C23_Witness ==
    \E l \in Layers : \E e \in SceneEdges, f \in SceneEdges :
        /\ alive[l] /\ ~fatal /\ ~depth_order_dirty[l]
        /\ parents[l] # <<>>
        /\ e \in depth_order[l] /\ f \notin depth_order[l]
        /\ add_elements_order_dependency(Heap, l, e[1], e[2]) = Heap
        /\ add_elements_order_dependency(Heap, l, f[1], f[2]).depth_order_dirty[l]

\* C24: group-level edge edits are idempotent. On a live group,
\* add_global_elements_order_dependency(x, y) returns true exactly when the
\* edge is absent and false when repeated right after; the remove call
\* returns true exactly when the edge is present and false on an absent edge;
\* the group's dirty flag is set by the calls that return true, and a call
\* that returns false leaves the state, the global graph and the group flag
\* included, unchanged.
C24_GlobalEditsIdempotent ==
    \A g \in Layers : (alive[g] /\ ~fatal) =>
        \A x \in LayerItems, y \in LayerItems :
            LET present == <<x, y>> \in global_element_depth_order[g]
                fresh == add_global_elements_order_dependency_fresh(Heap, g, x, y)
                added == add_global_elements_order_dependency(Heap, g, x, y)
                again == add_global_elements_order_dependency(added, g, x, y)
                found == remove_global_elements_order_dependency_found(Heap, g, x, y)
                removed == remove_global_elements_order_dependency(Heap, g, x, y)
            IN  /\ fresh = ~present
                /\ added.global_element_depth_order[g] =
                       global_element_depth_order[g] \cup {<<x, y>>}
                /\ added.element_depth_order_dirty[g] =
                       (element_depth_order_dirty[g] \/ fresh)
                /\ ~fresh => added = Heap
                /\ ~add_global_elements_order_dependency_fresh(added, g, x, y)
                /\ again = added
                /\ found = present
                /\ removed.global_element_depth_order[g] =
                       global_element_depth_order[g] \ {<<x, y>>}
                /\ removed.element_depth_order_dirty[g] =
                       (element_depth_order_dirty[g] \/ found)
                /\ ~found => removed = Heap
                /\ ~remove_global_elements_order_dependency_found(removed, g, x, y)
                /\ add_global_elements_order_dependency_fresh(removed, g, x, y)

\* A group with a child holds a global edge, and an update pass has cleared
\* its flag: the repeated add returns false and leaves the flag clear, as
\* does the removal of a scene edge the group does not hold.
C24_Witness ==
    \E g \in Layers : \E e \in SceneEdges, f \in SceneEdges :
        /\ alive[g] /\ ~fatal /\ layers[g] # <<>>
        /\ ~element_depth_order_dirty[g]
        /\ e \in global_element_depth_order[g]
        /\ f \notin global_element_depth_order[g]
        /\ ~add_global_elements_order_dependency_fresh(Heap, g, e[1], e[2])
        /\ ~remove_global_elements_order_dependency_found(Heap, g, f[1], f[2])

\* C25: on a live layer the type-level calls have the effect and the result
\* of the element-level calls on the shape-system ids of the two types:
\* add_shapes_order_dependency<A,B>() leaves the state that
\* add_elements_order_dependency(id(A), id(B)) leaves, so re-adding a present
\* type-level edge does not mark the layer dirty, and
\* remove_shapes_order_dependency<A,B>() leaves the state and returns the
\* result of remove_elements_order_dependency(id(A), id(B)).
C25_ShapesDependencyForwards ==
    \A l \in Layers : (alive[l] /\ ~fatal) =>
        \A A \in ShapeSystemIds, B \in ShapeSystemIds :
            /\ add_shapes_order_dependency(Heap, l, A, B) =
                   add_elements_order_dependency(Heap, l, ShapeSystem(A),
                                                 ShapeSystem(B))
            /\ remove_shapes_order_dependency(Heap, l, A, B) =
                   remove_elements_order_dependency(Heap, l, ShapeSystem(A),
                                                    ShapeSystem(B))
            /\ remove_shapes_order_dependency_found(Heap, l, A, B) =
                   remove_elements_order_dependency_found(
                       Heap, l, ShapeSystem(A), ShapeSystem(B))

\* C26: on one layer's registry the shape system of a type is constructed at
\* most once, on first use; once it is cached, get_or_register, shape_system
\* and instantiate return that instance and construct nothing; so any two
\* shapes of one type instantiated on one layer have received the same
\* SymbolId and the same ShapeSystemId.
C26_OneCachedSystemPerType ==
    /\ \A l \in Layers, T \in ShapeSystemIds :
          /\ constructed[l][T] <= 1
          /\ (constructed[l][T] = 1) = (T \in DOMAIN shape_system_map[l])
          /\ T \in DOMAIN shape_system_map[l] =>
                LET cached == shape_system_map[l][T]
                IN  /\ get_or_register(Registries, l, T) =
                           [state |-> Registries, system |-> cached]
                    /\ shape_system(Registries, l, T).system = cached
                    /\ instantiate(Registries, l, T).symbol_id = cached.symbol
                    /\ instantiate(Registries, l, T).state.constructed =
                           constructed
                    /\ instantiate(Registries, l, T).state.scene_symbols =
                           scene_symbols
    /\ \A a \in instantiated, b \in instantiated :
          (a.layer = b.layer /\ a.type = b.type) =>
              (a.symbol_id = b.symbol_id /\ a.system_id = b.system_id)

\* Two shapes of one type were instantiated on one layer, after the type's
\* shape system had been built there once.
C26_Witness ==
    \E a \in instantiated, b \in instantiated :
        /\ a.layer = b.layer /\ a.type = b.type
        /\ a.instance_id # b.instance_id
        /\ constructed[a.layer][a.type] = 1
        /\ scene_symbols > 1

\* C27, as stated: all shapes of the same static type, on whatever layers
\* they were instantiated, have received one and the same SymbolId.
C27_SameTypeSharesSymbolAnywhere ==
    \A a \in instantiated, b \in instantiated :
        a.type = b.type => a.symbol_id = b.symbol_id

\* C27, amended: all shapes of the same static type instantiated on the same
\* layer share exactly one SymbolId, the one of the shape system that layer's
\* registry caches for the type.
C27_SameTypeSharesSymbolOnLayer ==
    \A a \in instantiated :
        /\ a.type \in DOMAIN shape_system_map[a.layer]
        /\ a.symbol_id = shape_system_map[a.layer][a.type].symbol
        /\ \A b \in instantiated :
              (b.layer = a.layer /\ b.type = a.type) =>
                  b.symbol_id = a.symbol_id

\* Two shapes of one type were instantiated on one layer and a third shape
\* of that type on another layer.
C27_Witness ==
    \E a \in instantiated, b \in instantiated, c \in instantiated :
        /\ a.type = b.type /\ b.type = c.type
        /\ a.layer = b.layer /\ a.instance_id # b.instance_id
        /\ c.layer # a.layer

\* C28: no operation of the core has a fatal outcome: in every reachable
\* state no panic has unwound out of an operation of the layer and group API
\* or out of the destruction of a layer.
C28_NoFatalOutcome == fatal = FALSE

\* C29: every call of apply_update_event(event) sets the version to
\* event.current_version and publishes exactly one Notification::Updated,
\* however many updates the event carries and whether or not updates of it
\* fail: one notification has been published per event applied, so none
\* before the first event.
C29_OneNotificationPerEvent ==
    /\ Len(notifications) = events
    /\ \A us \in UpdateSeqs, v \in Versions :
          LET d == apply_update_event(Db, Event(us, v))
          IN  /\ d.version = v
              /\ d.notifications = Append(notifications, "Updated")

\* An event has been applied of which an update failed, and it left one
\* notification; among the next events is one of another version whose two
\* updates both fail.
C29_Witness ==
    /\ events > 0 /\ errors > 0
    /\ notifications = <<"Updated">>
    /\ \E us \in UpdateSeqs, v \in Versions \ {version} :
          /\ Len(us) > 1
          /\ apply_update_event(Db, Event(us, v)).errors > 1

\* The positions of the updates that name id.
Naming(updates, id) == {i \in DOMAIN updates : updates[i][2] = id}

\* The last of the updates that names id.
LastNaming(updates, id) ==
    updates[CHOOSE i \in Naming(updates, id) :
                \A j \in Naming(updates, id) : j <= i]

\* C30: apply_update_event applies the updates of an event to the keyed store
\* in the order given: for an id whose last update in the event is an Add
\* with a valid suggestion, lookup(id) returns the new entry, whatever was
\* stored under id; for an id whose last update is a Remove, lookup(id)
\* returns Err(NoSuchEntry(id)); for an id no update names, lookup(id)
\* returns what it returned before the event.
C30_UpdatesFoldInOrder ==
    \A us \in UpdateSeqs :
        LET d == apply_update_event(Db, Event(us, MaxVersion))
        IN  \A id \in SuggestionIds :
                IF Naming(us, id) = {}
                THEN lookup(d, id) = lookup(Db, id)
                ELSE LET last == LastNaming(us, id)
                     IN  /\ (last[1] = "Add" /\ from_ls_entry(last[3]) # <<>>)
                                => lookup(d, id) =
                                       <<"Ok", from_ls_entry(last[3])[1]>>
                         /\ last[1] = "Remove" =>
                                lookup(d, id) = <<"Err", <<"NoSuchEntry", id>>>>

\* After an event the store holds an entry under one id and none under
\* another: an Add of a different valid suggestion under the first id
\* replaces the entry, and a Remove followed by an Add under it, and an Add
\* followed by a Remove under the second, are among the next events.
C30_Witness ==
    /\ events > 0
    /\ \E id \in DOMAIN entries, other \in SuggestionIds \ DOMAIN entries :
          \E s \in SuggestionPool :
              /\ from_ls_entry(s) # <<>>
              /\ from_ls_entry(s)[1] # entries[id]
              /\ <<<<"Remove", id>>, <<"Add", id, s>>>> \in UpdateSeqs
              /\ <<<<"Add", other, s>>, <<"Remove", other>>>> \in UpdateSeqs
              /\ lookup(apply_update_event(
                            Db, Event(<<<<"Add", id, s>>>>, MaxVersion)), id)
                     = <<"Ok", from_ls_entry(s)[1]>>

\* C31: a Modify update is applied field by field. On a stored entry every
\* valid field change is applied (return type, html documentation, the
\* removal of an argument the entry has, the scope of an entry that has one),
\* every field aimed at by an invalid change (the removal of an argument of
\* an entry without arguments, a scope for an entry visible everywhere) keeps
\* its value, the fields no change names keep theirs, the entry and all other
\* entries stay in the store; a Modify without field changes leaves the entry
\* as it was.
C31_ModifyFieldByField ==
    \A id \in DOMAIN entries : \A m \in ModificationPool :
        LET old == entries[id]
            d == apply_update(Db, <<"Modify", id, m>>)
            new == d.entries[id]
        IN  /\ DOMAIN d.entries = DOMAIN entries
            /\ \A other \in DOMAIN entries \ {id} :
                   d.entries[other] = entries[other]
            /\ new.kind = old.kind /\ new.name = old.name
            /\ new.module = old.module
            /\ new.return_type =
                   IF m.return_type = <<>> THEN old.return_type
                   ELSE m.return_type[1]
            /\ new.documentation_html =
                   IF m.documentation_html = <<>> THEN old.documentation_html
                   ELSE m.documentation_html
            /\ new.arguments =
                   IF m.arguments = <<>> \/ old.arguments = <<>>
                   THEN old.arguments ELSE Tail(old.arguments)
            /\ new.scope =
                   IF m.scope = <<>> \/ old.scope = "Everywhere"
                   THEN old.scope ELSE m.scope[1]
            /\ (m = EmptyModification => new = old)

\* C31 witness: an event modified an entry without arguments, visible
\* everywhere, with two valid and two invalid changes: the return type and
\* the documentation are the new ones, arguments and scope are as before, and
\* the update counted as failed.
C31_Witness ==
    /\ events = 1 /\ errors = 1
    /\ \E id \in DOMAIN entries :
          /\ entries[id].return_type = "TestAtom2"
          /\ entries[id].documentation_html = <<"<p>Blah blah</p>">>
          /\ entries[id].arguments = <<>>
          /\ entries[id].scope = "Everywhere"

\* The ids under which a response lists an entry that converts.
ConvertingIds(r) ==
    {r.entries[i].id :
        i \in {j \in DOMAIN r.entries :
                  from_ls_entry(r.entries[j].suggestion) # <<>>}}

\* C32: a database just built by from_ls_response holds exactly the entries
\* of the response that convert: every such entry is what lookup returns
\* under its id, every other id is NoSuchEntry; its version is the
\* current_version of the response; for a response without entries the store
\* is empty.
C32_BuiltFromConvertingEntries ==
    ls_response # <<>> =>
        LET r == ls_response[1]
        IN  /\ DOMAIN entries = ConvertingIds(r)
            /\ \A i \in DOMAIN r.entries :
                   LET converted == from_ls_entry(r.entries[i].suggestion)
                   IN  converted # <<>> =>
                           lookup(Db, r.entries[i].id) = <<"Ok", converted[1]>>
            /\ \A id \in SuggestionIds \ ConvertingIds(r) :
                   lookup(Db, id) = <<"Err", <<"NoSuchEntry", id>>>>
            /\ version = r.current_version
            /\ (r.entries = <<>> => entries = <<>>)

\* C32 witness: a database just built from a response of two entries, the
\* first of which does not convert, holds the second one alone.
C32_Witness ==
    /\ ls_response # <<>>
    /\ Len(ls_response[1].entries) = 2
    /\ from_ls_entry(ls_response[1].entries[1].suggestion) = <<>>
    /\ DOMAIN entries = {ls_response[1].entries[2].id}

\* C33: update() consumes the dirty flags of the layer it is called on: when
\* l.update() returns, the local dirty flag of l and the children-dirty flag
\* of l are clear; and on a layer whose two flags are clear already the call
\* changes nothing at all: no symbols() is rewritten, no layer is sorted, no
\* child is visited.
C33_UpdateConsumesFlags ==
    \A l \in Layers : (alive[l] /\ ~fatal) =>
        LET h == AfterUpdate(l)
        IN  /\ ~h.depth_order_dirty[l]
            /\ ~h.element_depth_order_dirty[l]
            /\ (~depth_order_dirty[l] /\ ~element_depth_order_dirty[l])
                   => h = Heap

\* C33 witness: an update() of a group has just sorted a child, the flags of
\* the group are clear, and a second update() of it would change nothing.
C33_Witness ==
    \E g \in Layers :
        /\ alive[g] /\ ~fatal
        /\ sort_log # <<>>
        /\ SeqToSet(sort_log) \subseteq LiveChildren(Heap, g)
        /\ ~depth_order_dirty[g] /\ ~element_depth_order_dirty[g]
        /\ AfterUpdate(g) = Heap

\* C34: in every reachable state the shape bookkeeping of every layer is
\* mutually consistent: ShapeSystem(id) is an element exactly when id is a
\* key of the shape-system-to-symbol map, and the symbol-to-shape-system map
\* is the exact inverse of it (s maps to id exactly when id maps to the
\* symbol s).
C34_ShapeBookkeepingConsistent ==
    \A l \in Layers :
        LET forward == shape_system_to_symbol_info_map[l]
            reverse == symbol_to_shape_system_map[l]
        IN  /\ \A id \in ShapeSystemIds :
                   ShapeSystem(id) \in elements[l] <=> id \in DOMAIN forward
            /\ \A s \in SymbolIds : \A id \in ShapeSystemIds :
                   (s \in DOMAIN reverse /\ reverse[s] = id)
                       <=> (id \in DOMAIN forward /\ forward[id] = s)

\* C35: in every reachable state symbols() of a layer holds no SymbolId
\* twice, also when the same symbol id was added as a bare symbol and as a
\* shape instance, or under two shape-system ids.
C35_SymbolsWithoutDuplicates ==
    \A l \in Layers :
        LET view == symbols(Heap, l).value
        IN  \A i \in DOMAIN view : \A j \in DOMAIN view :
                view[i] = view[j] => i = j

\* C36: for a live layer registered as a child of two groups (two other
\* layers) with different global dependency graphs, symbols() of the layer
\* after both groups have been updated is the same whichever of the two
\* update() calls comes first.
C36_TwoGroupOrderIndependent ==
    \A g1 \in Layers : \A g2 \in Layers \ {g1} :
        \A l \in (LiveChildren(Heap, g1) \cap LiveChildren(Heap, g2)) \ {g1, g2} :
            ( /\ alive[g1] /\ alive[g2] /\ ~fatal
              /\ global_element_depth_order[g1] # global_element_depth_order[g2] )
            => symbols(update(update(Heap, g1), g2), l).value
                   = symbols(update(update(Heap, g2), g1), l).value

\* C37: update() returns on every reachable hierarchy, also when a layer is
\* registered in itself, two layers are registered in each other, or a layer
\* is registered several times in one group; no layer is sorted more than
\* once by one update() call, and the call has no fatal outcome.
C37_UpdateTerminatesSortingOnce ==
    \A l \in Layers : (alive[l] /\ ~fatal) =>
        LET h == AfterUpdate(l)
        IN  /\ ~h.fatal
            /\ \A x \in Layers : Count(h.sort_log, x) <= 1
            /\ Len(h.sort_log) <= NumLayers

\* C37 witness: an update() has just returned, having sorted a layer, in a
\* hierarchy where two layers are registered in each other.
C37_Witness ==
    /\ sort_log # <<>>
    /\ \E g1 \in Layers : \E g2 \in Layers \ {g1} :
          /\ g1 \in LiveChildren(Heap, g2)
          /\ g2 \in LiveChildren(Heap, g1)
          /\ g2 \in SeqToSet(sort_log)
    /\ \A x \in Layers : Count(sort_log, x) <= 1

\* C38: an entry handle lookup returned is an immutable snapshot: whatever
\* Modify, Add or Remove updates arrive afterwards, the Entry seen through
\* the handle is the one it showed when it was obtained; a handle that still
\* is the store's own Rc shows what the store holds, so a change in what
\* lookup returns for the id is never seen through an earlier handle.
C38_HandleIsSnapshot ==
    \A i \in DOMAIN handles :
        /\ handles[i].entry = handles[i].obtained
        /\ handles[i].shared =>
               lookup(Db, handles[i].id) = <<"Ok", handles[i].obtained>>

\* C38 witness: a handle was obtained and an event then changed what lookup
\* returns for its id (another entry, or no entry); the handle shows what it
\* showed before.
C38_Witness ==
    /\ events > 0
    /\ \E i \in DOMAIN handles :
          /\ lookup(Db, handles[i].id) # <<"Ok", handles[i].obtained>>
          /\ handles[i].entry = handles[i].obtained
    /\ \E i \in DOMAIN handles :
          /\ lookup(Db, handles[i].id)[1] = "Ok"
          /\ lookup(Db, handles[i].id)[2].return_type = "TestAtom2"
          /\ handles[i].obtained.return_type # "TestAtom2"

\* C39: a Modify or Remove update naming an id that is not in the store
\* leaves the store as it is (update_entry returns InvalidEntry(id)) and does
\* not abort the event: the updates after it are applied as if it were not
\* there, the failed update is reported, and the version and the one
\* notification of the event are produced.
C39_AbsentIdDoesNotAbort ==
    \A id \in SuggestionIds \ DOMAIN entries :
        \A u \in {w \in UpdatePool : w[2] = id /\ w[1] # "Add"} :
            /\ apply_update(Db, u).entries = entries
            /\ apply_update(Db, u).errors = 1
            /\ u[1] = "Modify" =>
                   update_entry(entries, handles, id, u[3]).result
                       = <<"Err", <<"InvalidEntry", id>>>>
            /\ \A rest \in UpdatePool :
                   LET with ==
                           apply_update_event(Db, Event(<<u, rest>>, MaxVersion))
                       without ==
                           apply_update_event(Db, Event(<<rest>>, MaxVersion))
                   IN  /\ with.entries = without.entries
                       /\ with.errors = without.errors + 1
                       /\ with.version = MaxVersion
                       /\ with.notifications = Append(notifications, "Updated")

\* C39 witness: the event just applied held a Modify or a Remove of an id
\* that was not in the store, its only failure: the id is still absent, the
\* other entry is still stored, the version is the event's and the
\* notification of the event was sent.
C39_Witness ==
    /\ events > 1
    /\ absent_named /\ errors = 1
    /\ SuggestionIds \ DOMAIN entries # {}
    /\ entries # <<>>
    /\ version = MaxVersion
    /\ Len(notifications) = events

====
